---- MODULE Spec2Model ----
(***************************************************************************)
(* Model of the astrometric registration code of grizli/prep.py:           *)
(*   clip_lists, match_lists, align_drizzled_image and log_wcs, and the    *)
(*   intra-visit alignment of tweak_align, tweak_flt, apply_tweak_shifts.  *)
(*                                                                         *)
(* Coordinates are integers.  A point is a pair <<x, y>>, a point list is  *)
(* a sequence of points (a numpy array of shape (N, 2)).  Distances are    *)
(* kept as squared distances so that `dist < clip` is decided exactly.     *)
(* Rotations are whole quarter turns, so that rotation matrices are        *)
(* integer matrices; scales are positive integers.                         *)
(***************************************************************************)
EXTENDS Integers, Sequences, FiniteSets, TLC

VARIABLES
    \* ---- clip_lists exercised on its own ----
    cl_pc, cl_input, cl_output, cl_clip, cl_first, cl_second,
    \* ---- align_drizzled_image ----
    pc,          \* position in the function body
    NITER, log, verbose, clip, outlier_threshold,     \* arguments
    wcs_shared,  \* drz_wcs.copy() shares the Wcsprm of drz_wcs (astropy's
                 \* WCS.copy() is a shallow copy) or is an independent copy
    rd_ref,      \* reference catalog (world offsets from CRVAL)
    xy_drz,      \* magnitude-selected image catalog, pixels
    drz_wcs,     \* working WCS  [crpix, cdnum, cdden]
    orig_wcs,    \* copy of the WCS taken before the loop
    out_shift, out_rot, out_scale,
    iter,        \* loop variable of `for iter in range(NITER)`
    input, output,                  \* clipped lists
    toler, titer,
    res,         \* last value assigned to `res`
    output_ix, input_ix, outliers, tf,
    NGOOD,
    bound,       \* names of the locals that have been assigned
    err,         \* exception that ended the run, "" if none
    result,      \* value returned
    wcs_log,     \* lines appended to <root>_wcs.log by this run
    tfs,         \* transforms accumulated so far, in iteration order
    mcalls,      \* match_lists calls made in the current iteration
    last_res,    \* value last returned by match_lists to line 499 or 514
    \* ---- tweak_align and tweak_flt ----
    tw_pc,       \* position in tweak_align / tweak_flt
    tw_entry,    \* the function that was called
    tw_files,    \* `files`: the exposures of the batch, reference first
    tw_cats,     \* detections of each exposure, in its own pixel frame
    tw_offs,     \* offset of each exposure's WCS from the reference WCS
    tw_max_dist,
    tw_i,        \* exposures processed by the loop of tweak_flt
    tw_d,        \* the OrderedDict `d`: entries [key, rec] in insertion order
    tw_pairs,    \* for each exposure processed, its pairs <<j, ix[j]>> with ok[j]
    tw_k,        \* entries of shift_dict consumed by the current loop
    tw_log,      \* exposure lines written to <product>_shifts.log
    tw_applied,  \* exposures updated by apply_tweak_shifts
    tw_err,      \* exception that ended the run, "" if none
    \* ---- get_radec_catalog ----
    rc_pc,       \* position in get_radec_catalog
    rc_verbose,
    rc_sdss, rc_gaia, rc_wise,   \* what each query does when it is made
    rc_cat_files,                \* value of glob.glob(...) at line 966
    rc_asked,    \* the queries made so far, in order
    has_catalog, radec, ref_catalog,
    rc_bound,    \* names of the locals that have been assigned
    rc_files,    \* .radec files written
    rc_result,   \* value returned
    rc_err,      \* exception that ended the call, "" if none
    \* ---- two visits processed at once in one working directory ----
    jb_pc,       \* position of each job in process_direct_grism_visit
    jb_sdss,     \* for each job, whether its SDSS query gives a catalog
    gaia_vot_gz, \* content of the file 'gaia.vot.gz', 0 if there is none
    gaia_vot,    \* content of the file 'gaia.vot', 0 if there is none
    jb_table,    \* for each job, the table read by get_gaia_catalog
    jb_ref,      \* for each job, its ref_catalog
    jb_log,      \* for each job, the lines of '<product>_wcs.log'
    \* ---- find_direct_grism_pairs ----
    fp_pc,       \* position in find_direct_grism_pairs
    fp_direct,   \* direct['files']: [visit, off] of each exposure
    fp_grism,    \* grism['files']
    fp_has_files,    \* 'files' in grism
    fp_same_visit,
    fp_g,        \* grism files taken by the outer loop
    fp_d,        \* direct files taken by the inner loop
    delta_min, delta_min_file, grism_matches,
    \* ---- fix_star_centers ----
    fs_pc,       \* position in fix_star_centers
    fs_mag_lim,
    fs_cat,      \* rows of '<root>.cat': [pos, mag]
    fs_offs,     \* offset of each exposure's pixel frame from the catalog's
    fs_dq,       \* images[i]['DQ'].data, one array per exposure
    fs_disk,     \* the DQ arrays in the FLT files
    fs_dq0,      \* the DQ arrays in the FLT files at the call
    fs_done,     \* catalog rows taken by the loop, in order
    \* ---- log_wcs called a number of times for one root ----
    lw_log,      \* '<root>_wcs.log': whether it exists, and its data lines
    lw_fits,     \* '<root>_wcs.fits': whether it exists, and its HDUs
    lw_calls,    \* calls made
    lw_synced,   \* a call has initialized the files and no one else wrote
    lw_err       \* exception that ended the last call, "" if none

clipVars == <<cl_pc, cl_input, cl_output, cl_clip, cl_first, cl_second>>

argVars == <<NITER, log, verbose, clip, outlier_threshold, rd_ref, xy_drz,
             wcs_shared>>

alignVars == <<pc, NITER, log, verbose, clip, outlier_threshold, rd_ref,
               xy_drz, wcs_shared, drz_wcs,
               orig_wcs, out_shift, out_rot, out_scale, iter, input, output,
               toler, titer, res, output_ix, input_ix, outliers, tf, NGOOD,
               bound, err, result, wcs_log, tfs, mcalls, last_res>>

tweakVars == <<tw_pc, tw_entry, tw_files, tw_cats, tw_offs, tw_max_dist, tw_i,
               tw_d, tw_pairs, tw_k, tw_log, tw_applied, tw_err>>

radecVars == <<rc_pc, rc_verbose, rc_sdss, rc_gaia, rc_wise, rc_cat_files,
               rc_asked, has_catalog, radec, ref_catalog, rc_bound, rc_files,
               rc_result, rc_err>>

jobVars == <<jb_pc, jb_sdss, gaia_vot_gz, gaia_vot, jb_table, jb_ref, jb_log>>

pairVars == <<fp_pc, fp_direct, fp_grism, fp_has_files, fp_same_visit, fp_g,
              fp_d, delta_min, delta_min_file, grism_matches>>

starVars == <<fs_pc, fs_mag_lim, fs_cat, fs_offs, fs_dq, fs_disk, fs_dq0,
              fs_done>>

logVars == <<lw_log, lw_fits, lw_calls, lw_synced, lw_err>>

baseVars == <<clipVars, alignVars, tweakVars>>

extraVars == <<radecVars, jobVars, pairVars, starVars, logVars>>

\* everything but the state of one function
notRadec == <<baseVars, jobVars, pairVars, starVars, logVars>>

notJobs == <<baseVars, radecVars, pairVars, starVars, logVars>>

notPairs == <<baseVars, radecVars, jobVars, starVars, logVars>>

notStar == <<baseVars, radecVars, jobVars, pairVars, logVars>>

notLog == <<baseVars, radecVars, jobVars, pairVars, starVars>>

vars == <<baseVars, extraVars>>

----------------------------------------------------------------------------
(* Bounds of the model *)

MaxPts == 3        \* longest point list given to clip_lists on its own
MaxNITER == 2      \* largest NITER argument

----------------------------------------------------------------------------
(* Points and sequences *)

Range(s) == {s[i] : i \in 1..Len(s)}

\* s[mask] for a boolean mask of the same length (numpy boolean indexing)
RECURSIVE Take(_, _)
Take(s, mask) ==
    IF s = <<>> THEN <<>>
    ELSE IF Head(mask) THEN <<Head(s)>> \o Take(Tail(s), Tail(mask))
         ELSE Take(Tail(s), Tail(mask))

\* s[ix] for an index list (numpy integer indexing; indices are 1-based here)
Pick(s, ix) == [k \in 1..Len(ix) |-> s[ix[k]]]

Dist2(p, q) == (p[1] - q[1]) * (p[1] - q[1]) + (p[2] - q[2]) * (p[2] - q[2])

Inf == -1          \* the distance cKDTree.query reports when it has no point

SetMin(S) == CHOOSE m \in S : \A n \in S : m <= n

\* a nearest-neighbour query that skips the point itself
QuerySkipSelf(tree, p) ==
    LET D == {Dist2(p, tree[i]) : i \in 1..Len(tree)} \ {0}
    IN  IF D = {} THEN Inf ELSE SetMin(D)

\* tree.query(p, k=1, distance_upper_bound=np.inf)[0], squared
Query(tree, p) ==
    IF tree = <<>> THEN Inf
    ELSE SetMin({Dist2(p, tree[i]) : i \in 1..Len(tree)})

\* dist <= clip
CloserOrEqual(d2, r) == d2 # Inf /\ r >= 0 /\ d2 <= r * r

\* dist < clip, for a squared distance
Closer(d2, r) == d2 # Inf /\ r > 0 /\ d2 < r * r

----------------------------------------------------------------------------
(* clip_lists *)

\* `ok` of the forward pass: one flag per point of `output`
ForwardOk(inp, outp, r) ==
    [j \in 1..Len(outp) |-> Closer(Query(inp, outp[j]), r)]

\* `ok` of the backward pass: one flag per point of `input`
BackwardOk(inp, out_arr, r) ==
    [j \in 1..Len(inp) |-> Closer(Query(out_arr, inp[j]), r)]

NoPair == [ok |-> FALSE, in_arr |-> <<>>, out_arr |-> <<>>]

\* clip_lists without the `ok.sum() == 0` test
ClipListsNoCheck(inp, outp, r) ==
    LET out_arr == Take(outp, ForwardOk(inp, outp, r))
    IN  [ok      |-> TRUE,
         in_arr  |-> Take(inp, BackwardOk(inp, out_arr, r)),
         out_arr |-> out_arr]

\* clip_lists with `dist <= clip` in the forward pass only
ClipListsLooseForward(inp, outp, r) ==
    LET fwd     == [j \in 1..Len(outp) |->
                       CloserOrEqual(Query(inp, outp[j]), r)]
        out_arr == Take(outp, fwd)
    IN  IF \A j \in 1..Len(outp) : ~fwd[j]
        THEN NoPair
        ELSE [ok      |-> TRUE,
              in_arr  |-> Take(inp, BackwardOk(inp, out_arr, r)),
              out_arr |-> out_arr]

\* clip_lists(input, output, clip): ok = FALSE stands for `return False`
ClipLists(inp, outp, r) ==
    LET fwd     == ForwardOk(inp, outp, r)
        out_arr == Take(outp, fwd)
    IN  IF \A j \in 1..Len(outp) : ~fwd[j]
        THEN NoPair
        ELSE [ok      |-> TRUE,
              in_arr  |-> Take(inp, BackwardOk(inp, out_arr, r)),
              out_arr |-> out_arr]

----------------------------------------------------------------------------
(* Values of the locals of align_drizzled_image *)

WCS0 == [crpix |-> <<0, 0>>, cdnum |-> <<1, 0, 0, 1>>, cdden |-> 1]

TF0 == [translation |-> <<0, 0>>, rotation |-> 0, scale |-> 1]

Res0 == [input_ix |-> <<>>, output_ix |-> <<>>, outliers |-> <<>>,
         model |-> TF0]

Ret0 == [orig_wcs |-> WCS0, drz_wcs |-> WCS0, out_shift |-> <<0, 0>>,
         out_rot |-> 0, out_scale |-> 1]

\* the part of the state that align_drizzled_image sets before its loop
AlignLocals0 ==
    /\ drz_wcs = WCS0 /\ orig_wcs = WCS0
    /\ out_shift = <<0, 0>> /\ out_rot = 0 /\ out_scale = 1
    /\ iter = 0 /\ input = <<>> /\ output = <<>>
    /\ toler = 0 /\ titer = 0
    /\ res = Res0 /\ output_ix = <<>> /\ input_ix = <<>>
    /\ outliers = <<>> /\ tf = TF0 /\ NGOOD = 0
    /\ bound = {} /\ err = "" /\ result = Ret0
    /\ wcs_log = <<>> /\ tfs = <<>> /\ mcalls = <<>> /\ last_res = Res0

AlignIdle ==
    /\ pc = "idle"
    /\ NITER = 0 /\ log = FALSE /\ verbose = FALSE /\ clip = 0
    /\ outlier_threshold = 0
    /\ rd_ref = <<>> /\ xy_drz = <<>>
    /\ wcs_shared = FALSE
    /\ AlignLocals0

ClipIdle ==
    /\ cl_pc = "idle" /\ cl_input = <<>> /\ cl_output = <<>> /\ cl_clip = 0
    /\ cl_first = NoPair /\ cl_second = NoPair

\* the part of the state that tweak_flt and tweak_align set as they run
TweakLocals0 ==
    /\ tw_i = 0 /\ tw_d = <<>> /\ tw_pairs = <<>> /\ tw_k = 0
    /\ tw_log = <<>> /\ tw_applied = <<>> /\ tw_err = ""

TweakIdle ==
    /\ tw_pc = "idle" /\ tw_entry = "" /\ tw_files = <<>> /\ tw_cats = <<>>
    /\ tw_offs = <<>> /\ tw_max_dist = 0
    /\ TweakLocals0

\* what a catalog query does: it raises, returns None, or returns n rows
Raises == [kind |-> "raise", n |-> 0]

\* the part of the state that get_radec_catalog sets as it runs
RadecLocals0 ==
    /\ rc_asked = <<>> /\ has_catalog = FALSE /\ radec = "" /\ ref_catalog = ""
    /\ rc_bound = {} /\ rc_files = {} /\ rc_result = <<>> /\ rc_err = ""

RadecIdle ==
    /\ rc_pc = "idle" /\ rc_verbose = FALSE
    /\ rc_sdss = Raises /\ rc_gaia = Raises /\ rc_wise = Raises
    /\ rc_cat_files = <<>>
    /\ RadecLocals0

JobsIdle ==
    /\ jb_pc = <<>> /\ jb_sdss = <<>> /\ gaia_vot_gz = 0 /\ gaia_vot = 0
    /\ jb_table = <<>> /\ jb_ref = <<>> /\ jb_log = <<>>

\* the part of the state that find_direct_grism_pairs sets as it runs
PairsLocals0 ==
    /\ fp_g = 0 /\ fp_d = 0 /\ delta_min = 0 /\ delta_min_file = 0
    /\ grism_matches = <<>>

PairsIdle ==
    /\ fp_pc = "idle" /\ fp_direct = <<>> /\ fp_grism = <<>>
    /\ fp_has_files = FALSE /\ fp_same_visit = FALSE
    /\ PairsLocals0

StarIdle ==
    /\ fs_pc = "idle" /\ fs_mag_lim = 0 /\ fs_cat = <<>> /\ fs_offs = <<>>
    /\ fs_dq = <<>> /\ fs_disk = <<>> /\ fs_dq0 = <<>> /\ fs_done = <<>>

NoFile == [exists |-> FALSE, content |-> <<>>]

LogIdle ==
    /\ lw_log = NoFile /\ lw_fits = NoFile /\ lw_calls = 0
    /\ lw_synced = FALSE /\ lw_err = ""

BaseIdle == ClipIdle /\ AlignIdle /\ TweakIdle

ExtraIdle == RadecIdle /\ JobsIdle /\ PairsIdle /\ StarIdle /\ LogIdle

NotRadecIdle == BaseIdle /\ JobsIdle /\ PairsIdle /\ StarIdle /\ LogIdle

NotJobsIdle == BaseIdle /\ RadecIdle /\ PairsIdle /\ StarIdle /\ LogIdle

NotPairsIdle == BaseIdle /\ RadecIdle /\ JobsIdle /\ StarIdle /\ LogIdle

NotStarIdle == BaseIdle /\ RadecIdle /\ JobsIdle /\ PairsIdle /\ LogIdle

NotLogIdle == BaseIdle /\ RadecIdle /\ JobsIdle /\ PairsIdle /\ StarIdle

----------------------------------------------------------------------------
(* clip_lists applied to arbitrary small lists, then to its own result *)

Grid == {<<0, 0>>, <<2, 0>>, <<3, 1>>, <<6, 0>>}

ClipRadii == {0, 2, 3}

Lists(S, n) == UNION {[1..k -> S] : k \in 0..n}

InitClip ==
    /\ cl_pc = "new"
    /\ cl_input \in Lists(Grid, MaxPts)
    /\ cl_output \in Lists(Grid, MaxPts)
    /\ cl_clip \in ClipRadii
    /\ cl_first = NoPair /\ cl_second = NoPair
    /\ AlignIdle
    /\ TweakIdle
    /\ ExtraIdle

ClipFirst ==
    /\ cl_pc = "new"
    /\ cl_first' = ClipLists(cl_input, cl_output, cl_clip)
    /\ cl_pc' = "once"
    /\ UNCHANGED <<cl_input, cl_output, cl_clip, cl_second, alignVars, tweakVars,
                 extraVars>>

ClipSecond ==
    /\ cl_pc = "once"
    /\ cl_first.ok
    /\ cl_second' = ClipLists(cl_first.in_arr, cl_first.out_arr, cl_clip)
    /\ cl_pc' = "twice"
    /\ UNCHANGED <<cl_input, cl_output, cl_clip, cl_first, alignVars, tweakVars,
                 extraVars>>

NextClip == ClipFirst \/ ClipSecond

SpecClip == InitClip /\ [][NextClip]_vars

----------------------------------------------------------------------------
(* Similarity transforms and the WCS *)

\* cosine and sine of q quarter turns
Cos4(q) == CASE q % 4 = 0 -> 1 [] q % 4 = 1 -> 0 [] q % 4 = 2 -> -1
             [] OTHER -> 0
Sin4(q) == CASE q % 4 = 0 -> 0 [] q % 4 = 1 -> 1 [] q % 4 = 2 -> 0
             [] OTHER -> -1

\* a 2x2 matrix <<a, b, c, d>> is [[a, b], [c, d]]
MatMul(m, n) == <<m[1] * n[1] + m[2] * n[3], m[1] * n[2] + m[2] * n[4],
                  m[3] * n[1] + m[4] * n[3], m[3] * n[2] + m[4] * n[4]>>

MatVec(m, v) == <<m[1] * v[1] + m[2] * v[2], m[3] * v[1] + m[4] * v[2]>>

\* inverse of a matrix of determinant 1
MatInv(m) == <<m[4], -m[2], -m[3], m[1]>>

VAdd(v, w) == <<v[1] + w[1], v[2] + w[2]>>
VSub(v, w) == <<v[1] - w[1], v[2] - w[2]>>

\* tf(p) of a skimage SimilarityTransform: scale * R(rotation) * p + translation
Apply(t, p) ==
    VAdd(MatVec(<<t.scale * Cos4(t.rotation), -t.scale * Sin4(t.rotation),
                  t.scale * Sin4(t.rotation), t.scale * Cos4(t.rotation)>>, p),
         t.translation)

\* drz_wcs.all_world2pix(rd, origin) of a linear WCS whose CD matrix is
\* cdnum / cdden: the FITS pixel is crpix + CD^-1 . rd
AllWorld2Pix(wcs, rd, origin) ==
    [k \in 1..Len(rd) |->
        LET v == MatVec(MatInv(wcs.cdnum), rd[k])
        IN  <<wcs.crpix[1] + wcs.cdden * v[1] - (1 - origin),
              wcs.crpix[2] + wcs.cdden * v[2] - (1 - origin)>>]

\* lines 550-555: crpix += translation; cd = dot(cd, _mat) / scale
UpdateWCS(wcs, t) ==
    LET theta == -t.rotation
        _mat  == <<Cos4(theta), -Sin4(theta), Sin4(theta), Cos4(theta)>>
    IN  [crpix |-> VAdd(wcs.crpix, t.translation),
         cdnum |-> MatMul(wcs.cdnum, _mat),
         cdden |-> wcs.cdden * t.scale]

\* out_rot / np.pi * 180 for an angle in quarter turns
Degrees(q) == q * 90

----------------------------------------------------------------------------
(* Residual statistics; lengths are kept in tenths of a pixel *)

RECURSIVE SqrtBetween(_, _, _)
SqrtBetween(n, lo, hi) ==
    IF lo >= hi THEN lo
    ELSE LET mid == (lo + hi + 1) \div 2
         IN  IF mid * mid <= n THEN SqrtBetween(n, mid, hi)
             ELSE SqrtBetween(n, lo, mid - 1)

ISqrt(n) == SqrtBetween(n, 0, 4000)

\* np.sqrt((dx**2).sum(axis=1)) for one row, in tenths
Norm(v) == ISqrt(100 * (v[1] * v[1] + v[2] * v[2]))

Count(s, P(_)) == Cardinality({i \in 1..Len(s) : P(s[i])})

\* k-th smallest element of a non-empty sequence of integers
Kth(s, k) ==
    CHOOSE v \in Range(s) :
        /\ Count(s, LAMBDA x : x < v) < k
        /\ Count(s, LAMBDA x : x <= v) >= k

Median(s) ==
    LET n == Len(s)
    IN  IF n % 2 = 1 THEN Kth(s, (n + 1) \div 2)
        ELSE (Kth(s, n \div 2) + Kth(s, n \div 2 + 1)) \div 2

Abs(x) == IF x < 0 THEN -x ELSE x

\* utils.nmad: 1.4826 * median(|x - median(x)|)
nmad(s) ==
    LET m == Median(s)
    IN  (14826 * Median([i \in 1..Len(s) |-> Abs(s[i] - m)])) \div 10000

\* np.sqrt((dx**2).sum(axis=1)) with dx = b - tf(a)
Residuals(t, a, b) == [k \in 1..Len(a) |-> Norm(VSub(b[k], Apply(t, a[k])))]

Not(mask) == [k \in 1..Len(mask) |-> ~mask[k]]

----------------------------------------------------------------------------
(* match_lists *)

MinStat == 10      \* `len(input_ix) > 10` at line 424

\* transforms that tf.estimate may come back with
Models == {TF0,
           [translation |-> <<1, 0>>, rotation |-> 0, scale |-> 1],
           [translation |-> <<0, 1>>, rotation |-> 1, scale |-> 2]}

Min(a, b) == IF a < b THEN a ELSE b

\* numbers of pairs that xyxymatch may come back with
MatchSizes(inp, outp) ==
    IF inp = <<>> \/ outp = <<>> THEN {}
    ELSE {1, Min(Len(inp), Len(outp))}

\* lines 407-432 for a match of the first k points of each list and an
\* estimated transform m
MatchResult(inp, outp, k, m, thr) ==
    LET ix == [i \in 1..k |-> i]
        dr == Residuals(m, Pick(inp, ix), Pick(outp, ix))
    IN  [input_ix  |-> ix,
         output_ix |-> ix,
         outliers  |-> IF k > MinStat
                       THEN [i \in 1..k |-> dr[i] > 10 * thr]
                       ELSE [i \in 1..k |-> FALSE],
         model     |-> m]

\* the values match_lists(input, output, ...) can return; it can also raise
MatchLists(inp, outp, thr) ==
    {MatchResult(inp, outp, k, m, thr) : k \in MatchSizes(inp, outp),
                                          m \in Models}

----------------------------------------------------------------------------
(* align_drizzled_image *)

Cat4 == <<<<0, 0>>, <<10, 0>>, <<20, 0>>, <<30, 0>>>>

\* Cat4 moved by (-1, 0), its last point displaced by one more pixel
Ref4 == <<<<-1, 0>>, <<9, 0>>, <<19, 0>>, <<30, 1>>>>

Cat11 == [k \in 1..11 |-> <<10 * (k - 1), 0>>]

DrzCats == {<<>>, Cat4, Cat11}

\* reference catalogs as seen through the initial WCS: one that coincides
\* with Cat11, one near Cat4, and one of another part of the sky
RefCats == {Cat11, Ref4, <<<<100, 100>>>>}

ClipArgs == {2}

ThresholdArgs == {0, 5}

matchVars == <<res, output_ix, input_ix, outliers, tf>>

accVars == <<drz_wcs, out_shift, out_rot, out_scale, tfs>>

Init ==
    /\ ClipIdle
    /\ TweakIdle
    /\ ExtraIdle
    /\ pc = "start"
    /\ NITER \in 0..MaxNITER
    /\ log \in BOOLEAN
    /\ verbose \in BOOLEAN
    /\ clip \in ClipArgs
    /\ outlier_threshold \in ThresholdArgs
    /\ rd_ref \in RefCats
    /\ xy_drz \in DrzCats
    /\ wcs_shared \in BOOLEAN
    /\ AlignLocals0

\* lines 460-464: no object in the magnitude range
ReturnFalse ==
    /\ pc = "start"
    /\ xy_drz = <<>>
    /\ pc' = "returned_false"
    /\ UNCHANGED <<clipVars, tweakVars, extraVars, argVars, accVars, matchVars, orig_wcs, iter,
                   input, output, toler, titer, NGOOD, bound, err, result,
                   wcs_log, mcalls, last_res>>

\* lines 466-475
Start ==
    /\ pc = "start"
    /\ xy_drz # <<>>
    /\ drz_wcs' = WCS0
    /\ orig_wcs' = drz_wcs'
    /\ out_shift' = <<0, 0>> /\ out_rot' = 0 /\ out_scale' = 1
    /\ pc' = "for"
    /\ UNCHANGED <<clipVars, tweakVars, extraVars, argVars, matchVars, tfs, iter, input, output,
                   toler, titer, NGOOD, bound, err, result, wcs_log, mcalls, last_res>>

\* `for` stops as well once an iteration has found nothing left to correct
ExhaustedOrConverged == iter >= NITER \/ (iter > 0 /\ tf = TF0)

\* line 477: range(NITER) has no further element
Exhausted == iter >= NITER

\* line 477: another iteration
ForNext ==
    /\ pc = "for"
    /\ ~Exhausted
    /\ pc' = "clip"
    /\ UNCHANGED <<clipVars, tweakVars, extraVars, argVars, accVars, matchVars, orig_wcs, iter,
                   input, output, toler, titer, NGOOD, bound, err, result,
                   wcs_log, mcalls, last_res>>

\* line 477: range(NITER) is exhausted
ForExit ==
    /\ pc = "for"
    /\ Exhausted
    /\ pc' = IF log THEN "log" ELSE "return"
    /\ UNCHANGED <<clipVars, tweakVars, extraVars, argVars, accVars, matchVars, orig_wcs, iter,
                   input, output, toler, titer, NGOOD, bound, err, result,
                   wcs_log, mcalls, last_res>>

\* the status of line 487
ClipStatus ==
    LET xy == AllWorld2Pix(drz_wcs, rd_ref, 0)
    IN  ClipLists(xy_drz, [k \in 1..Len(xy) |-> VAdd(xy[k], <<1, 1>>)], clip)

\* lines 478-496 when clip_lists returns a pair
ClipOk ==
    /\ pc = "clip"
    /\ ClipStatus.ok
    /\ input' = ClipStatus.in_arr
    /\ output' = ClipStatus.out_arr
    /\ bound' = bound \cup {"input", "output"}
    /\ toler' = 5
    /\ titer' = 0
    /\ mcalls' = <<>>
    /\ pc' = "match"
    /\ UNCHANGED <<clipVars, tweakVars, extraVars, argVars, accVars, matchVars, orig_wcs, iter,
                   NGOOD, err, result, wcs_log, last_res>>

\* lines 478-491 when clip_lists returns False: `input, output = status`
\* raises TypeError
ClipFalse ==
    /\ pc = "clip"
    /\ ~ClipStatus.ok
    /\ pc' = "error"
    /\ err' = "TypeError"
    /\ UNCHANGED <<clipVars, tweakVars, extraVars, argVars, accVars, matchVars, orig_wcs, iter,
                   input, output, toler, titer, NGOOD, bound, result,
                   wcs_log, mcalls, last_res>>

\* a call of match_lists with tolerance t: it returned r, or raised; `model`
\* is the transform that a refit returned
Call(ph, t, ok, r) ==
    [phase |-> ph, toler |-> t, ok |-> ok, n |-> Len(r.input_ix),
     model |-> IF ph = "refit" THEN r.model ELSE TF0]

\* line 501 / 520: output_ix, input_ix, outliers, tf = res
Unpack(r) ==
    /\ output_ix' = r.input_ix
    /\ input_ix' = r.output_ix
    /\ outliers' = r.outliers
    /\ tf' = r.model
    /\ bound' = bound \cup {"res", "output_ix", "input_ix", "outliers", "tf"}

\* lines 497-502 and 509: match_lists returns
MatchOk ==
    /\ pc = "match"
    /\ titer < 3
    /\ \E r \in MatchLists(output, input, outlier_threshold) :
          /\ res' = r
          /\ Unpack(r)
          /\ last_res' = r
          /\ mcalls' = Append(mcalls, Call("fail", toler, TRUE, r))
    /\ titer' = 0
    /\ pc' = "lowyield"
    /\ UNCHANGED <<clipVars, tweakVars, extraVars, argVars, accVars, orig_wcs, iter, input, output,
                   toler, NGOOD, err, result, wcs_log>>

\* match_lists raises and the tolerance is doubled up
MatchRaiseBy10 ==
    /\ pc = "match"
    /\ titer < 3
    /\ toler' = toler + 10
    /\ titer' = titer + 1
    /\ mcalls' = Append(mcalls, Call("fail", toler, FALSE, Res0))
    /\ UNCHANGED <<clipVars, tweakVars, extraVars, argVars, accVars, matchVars, orig_wcs, iter,
                   input, output, NGOOD, bound, err, result, wcs_log, pc,
                   last_res>>

\* lines 497-505: match_lists raises
MatchRaise ==
    /\ pc = "match"
    /\ titer < 3
    /\ toler' = toler + 5
    /\ titer' = titer + 1
    /\ mcalls' = Append(mcalls, Call("fail", toler, FALSE, Res0))
    /\ UNCHANGED <<clipVars, tweakVars, extraVars, argVars, accVars, matchVars, orig_wcs, iter,
                   input, output, NGOOD, bound, err, result, wcs_log, pc,
                   last_res>>

\* lines 497 and 509: three attempts have failed
MatchExhausted ==
    /\ pc = "match"
    /\ titer >= 3
    /\ titer' = 0
    /\ pc' = "lowyield"
    /\ UNCHANGED <<clipVars, tweakVars, extraVars, argVars, accVars, matchVars, orig_wcs, iter,
                   input, output, toler, NGOOD, bound, err, result, wcs_log,
                   mcalls, last_res>>

\* a threshold of 0.01 in place of 0.1
LowFractionPercent == 100 * Len(input_ix) < Len(input)

\* len(input_ix)*1./len(input) < 0.1
LowFraction == 10 * Len(input_ix) < Len(input)

\* line 510 when input_ix was never assigned
LowYieldUnbound ==
    /\ pc = "lowyield"
    /\ "input_ix" \notin bound
    /\ pc' = "error"
    /\ err' = "NameError"
    /\ UNCHANGED <<clipVars, tweakVars, extraVars, argVars, accVars, matchVars, orig_wcs, iter,
                   input, output, toler, titer, NGOOD, bound, result,
                   wcs_log, mcalls, last_res>>

\* the low-yield loop with room for a fourth retry
LowYieldRetryFour ==
    /\ pc = "lowyield"
    /\ "input_ix" \in bound
    /\ LowFraction /\ titer < 4
    /\ titer' = titer + 1
    /\ toler' = toler + 5
    /\ \/ \E r \in MatchLists(output, input, outlier_threshold) :
             /\ res' = r
             /\ last_res' = r
             /\ mcalls' = Append(mcalls, Call("low", toler', TRUE, r))
       \/ /\ res' = res
          /\ last_res' = last_res
          /\ mcalls' = Append(mcalls, Call("low", toler', FALSE, Res0))
    /\ Unpack(res')
    /\ UNCHANGED <<clipVars, tweakVars, extraVars, argVars, accVars, orig_wcs, iter, input, output,
                   NGOOD, err, result, wcs_log, pc>>

\* lines 510-520: one retry; an exception leaves res as it was
LowYieldRetry ==
    /\ pc = "lowyield"
    /\ "input_ix" \in bound
    /\ LowFraction /\ titer < 3
    /\ titer' = titer + 1
    /\ toler' = toler + 5
    /\ \/ \E r \in MatchLists(output, input, outlier_threshold) :
             /\ res' = r
             /\ last_res' = r
             /\ mcalls' = Append(mcalls, Call("low", toler', TRUE, r))
       \/ /\ res' = res
          /\ last_res' = last_res
          /\ mcalls' = Append(mcalls, Call("low", toler', FALSE, Res0))
    /\ Unpack(res')
    /\ UNCHANGED <<clipVars, tweakVars, extraVars, argVars, accVars, orig_wcs, iter, input, output,
                   NGOOD, err, result, wcs_log, pc>>

\* line 510: the loop condition is false
LowYieldExit ==
    /\ pc = "lowyield"
    /\ "input_ix" \in bound
    /\ ~(LowFraction /\ titer < 3)
    /\ pc' = "outlier"
    /\ UNCHANGED <<clipVars, tweakVars, extraVars, argVars, accVars, matchVars, orig_wcs, iter,
                   input, output, toler, titer, NGOOD, bound, err, result,
                   wcs_log, mcalls, last_res>>

\* an index list addresses rows of the array
InRange(ix, arr) == \A k \in 1..Len(ix) : ix[k] <= Len(arr)

\* the outlier test with `>=` in place of `>`
OutlierCheckAtLeast ==
    /\ pc = "outlier"
    /\ InRange(output_ix, output) /\ InRange(input_ix, input)
    /\ LET dr  == Residuals(tf, Pick(output, output_ix), Pick(input, input_ix))
           rms == nmad(dr)
       IN  outliers' = [k \in 1..Len(dr) |-> dr[k] >= 4 * rms]
    /\ pc' = "refit"
    /\ UNCHANGED <<clipVars, tweakVars, extraVars, argVars, accVars, res, output_ix, input_ix, tf,
                   orig_wcs, iter, input, output, toler, titer, NGOOD, bound,
                   err, result, wcs_log, mcalls, last_res>>

\* lines 524-528
OutlierCheck ==
    /\ pc = "outlier"
    /\ InRange(output_ix, output) /\ InRange(input_ix, input)
    /\ LET dr  == Residuals(tf, Pick(output, output_ix), Pick(input, input_ix))
           rms == nmad(dr)
       IN  outliers' = [k \in 1..Len(dr) |-> dr[k] > 4 * rms]
    /\ pc' = "refit"
    /\ UNCHANGED <<clipVars, tweakVars, extraVars, argVars, accVars, res, output_ix, input_ix, tf,
                   orig_wcs, iter, input, output, toler, titer, NGOOD, bound,
                   err, result, wcs_log, mcalls, last_res>>

\* line 524-525 when the index lists do not fit the clipped arrays
OutlierIndexError ==
    /\ pc = "outlier"
    /\ ~(InRange(output_ix, output) /\ InRange(input_ix, input))
    /\ pc' = "error"
    /\ err' = "IndexError"
    /\ UNCHANGED <<clipVars, tweakVars, extraVars, argVars, accVars, matchVars, orig_wcs, iter,
                   input, output, toler, titer, NGOOD, bound, result,
                   wcs_log, mcalls, last_res>>

AnyOutlier == \E k \in 1..Len(outliers) : outliers[k]

\* line 530: no outlier, no refit
RefitSkip ==
    /\ pc = "refit"
    /\ ~AnyOutlier
    /\ pc' = "report"
    /\ UNCHANGED <<clipVars, tweakVars, extraVars, argVars, accVars, matchVars, orig_wcs, iter,
                   input, output, toler, titer, NGOOD, bound, err, result,
                   wcs_log, mcalls, last_res>>

\* the refit is given every matched row, outliers included
RefitOkAll ==
    /\ pc = "refit"
    /\ AnyOutlier
    /\ \E r \in MatchLists(Pick(output, output_ix), Pick(input, input_ix),
                           outlier_threshold) :
          /\ tf' = r.model
          /\ mcalls' = Append(mcalls, Call("refit", toler, TRUE, r))
    /\ pc' = "report"
    /\ UNCHANGED <<clipVars, tweakVars, extraVars, argVars, accVars, res, output_ix, input_ix,
                   outliers, orig_wcs, iter, input, output, toler, titer,
                   NGOOD, bound, err, result, wcs_log, last_res>>

\* lines 530-536: match_lists on the rows that are not outliers
RefitOk ==
    /\ pc = "refit"
    /\ AnyOutlier
    /\ \E r \in MatchLists(Take(Pick(output, output_ix), Not(outliers)),
                           Take(Pick(input, input_ix), Not(outliers)),
                           outlier_threshold) :
          /\ tf' = r.model
          /\ mcalls' = Append(mcalls, Call("refit", toler, TRUE, r))
    /\ pc' = "report"
    /\ UNCHANGED <<clipVars, tweakVars, extraVars, argVars, accVars, res, output_ix, input_ix,
                   outliers, orig_wcs, iter, input, output, toler, titer,
                   NGOOD, bound, err, result, wcs_log, last_res>>

\* lines 530-534: the refit raises, outside any try
RefitRaise ==
    /\ pc = "refit"
    /\ AnyOutlier
    /\ mcalls' = Append(mcalls, Call("refit", toler, FALSE, Res0))
    /\ pc' = "error"
    /\ err' = "MatchError"
    /\ UNCHANGED <<clipVars, tweakVars, extraVars, argVars, accVars, matchVars, orig_wcs, iter,
                   input, output, toler, titer, NGOOD, bound, result,
                   wcs_log, last_res>>

\* NGOOD counted on the flags that match_lists returned
ReportMatchFlags ==
    /\ pc = "report"
    /\ IF verbose
       THEN /\ NGOOD' = Count(res.outliers, LAMBDA o : ~o)
            /\ bound' = bound \cup {"NGOOD"}
       ELSE UNCHANGED <<NGOOD, bound>>
    /\ pc' = "accumulate"
    /\ UNCHANGED <<clipVars, tweakVars, extraVars, argVars, accVars, matchVars, orig_wcs, iter,
                   input, output, toler, titer, err, result, wcs_log, mcalls, last_res>>

\* lines 538-544
Report ==
    /\ pc = "report"
    /\ IF verbose
       THEN /\ NGOOD' = Count(outliers, LAMBDA o : ~o)
            /\ bound' = bound \cup {"NGOOD"}
       ELSE UNCHANGED <<NGOOD, bound>>
    /\ pc' = "accumulate"
    /\ UNCHANGED <<clipVars, tweakVars, extraVars, argVars, accVars, matchVars, orig_wcs, iter,
                   input, output, toler, titer, err, result, wcs_log, mcalls, last_res>>

\* the accumulation with `out_rot += tf.rotation`
AccumulateRotPlus ==
    /\ pc = "accumulate"
    /\ out_shift' = VAdd(out_shift, tf.translation)
    /\ out_rot' = out_rot + tf.rotation
    /\ out_scale' = out_scale * tf.scale
    /\ drz_wcs' = UpdateWCS(drz_wcs, tf)
    /\ orig_wcs' = IF wcs_shared THEN drz_wcs' ELSE orig_wcs
    /\ tfs' = Append(tfs, tf)
    /\ iter' = iter + 1
    /\ pc' = "for"
    /\ UNCHANGED <<clipVars, tweakVars, extraVars, argVars, matchVars, input, output,
                   toler, titer, NGOOD, bound, err, result, wcs_log, mcalls, last_res>>

\* lines 546-555 and the step of the for loop; lines 550 and 555 update
\* drz_wcs.wcs in place, which the copy of line 473 holds too when shared
Accumulate ==
    /\ pc = "accumulate"
    /\ out_shift' = VAdd(out_shift, tf.translation)
    /\ out_rot' = out_rot - tf.rotation
    /\ out_scale' = out_scale * tf.scale
    /\ drz_wcs' = UpdateWCS(drz_wcs, tf)
    /\ orig_wcs' = IF wcs_shared THEN drz_wcs' ELSE orig_wcs
    /\ tfs' = Append(tfs, tf)
    /\ iter' = iter + 1
    /\ pc' = "for"
    /\ UNCHANGED <<clipVars, tweakVars, extraVars, argVars, matchVars, input, output,
                   toler, titer, NGOOD, bound, err, result, wcs_log, mcalls, last_res>>

\* the run goes on to return without a call of log_wcs
LogNothing ==
    /\ pc = "log"
    /\ {"tf", "NGOOD"} \subseteq bound
    /\ pc' = "return"
    /\ UNCHANGED <<clipVars, tweakVars, extraVars, argVars, accVars, matchVars, orig_wcs, iter,
                   input, output, toler, titer, NGOOD, bound, err, result,
                   wcs_log, mcalls, last_res>>

\* lines 557-584 and log_wcs
Log ==
    /\ pc = "log"
    /\ {"tf", "NGOOD"} \subseteq bound
    /\ LET ok  == Not(outliers)
           dr  == Residuals(tf, Take(Pick(output, output_ix), ok),
                                Take(Pick(input, input_ix), ok))
           rms == nmad(dr)
       IN  wcs_log' = Append(wcs_log,
                             [ext |-> Len(wcs_log), shift |-> out_shift,
                              rot |-> Degrees(out_rot), scale |-> out_scale,
                              rms |-> rms, n |-> NGOOD])
    /\ pc' = "return"
    /\ UNCHANGED <<clipVars, tweakVars, extraVars, argVars, accVars, matchVars, orig_wcs, iter,
                   input, output, toler, titer, NGOOD, bound, err, result,
                   mcalls, last_res>>

\* line 558 with tf never assigned, or line 584 with NGOOD never assigned
LogUnbound ==
    /\ pc = "log"
    /\ ~({"tf", "NGOOD"} \subseteq bound)
    /\ pc' = "error"
    /\ err' = "NameError"
    /\ UNCHANGED <<clipVars, tweakVars, extraVars, argVars, accVars, matchVars, orig_wcs, iter,
                   input, output, toler, titer, NGOOD, bound, result,
                   wcs_log, mcalls, last_res>>

\* line 586
Return ==
    /\ pc = "return"
    /\ result' = [orig_wcs |-> orig_wcs, drz_wcs |-> drz_wcs,
                  out_shift |-> out_shift, out_rot |-> Degrees(out_rot),
                  out_scale |-> out_scale]
    /\ pc' = "done"
    /\ UNCHANGED <<clipVars, tweakVars, extraVars, argVars, accVars, matchVars, orig_wcs, iter,
                   input, output, toler, titer, NGOOD, bound, err, wcs_log,
                   mcalls, last_res>>

Next ==
    \/ ReturnFalse \/ Start \/ ForNext \/ ForExit
    \/ ClipOk \/ ClipFalse
    \/ MatchOk \/ MatchRaise \/ MatchExhausted
    \/ LowYieldUnbound \/ LowYieldRetry \/ LowYieldExit
    \/ OutlierCheck \/ OutlierIndexError
    \/ RefitSkip \/ RefitOk \/ RefitRaise
    \/ Report \/ Accumulate
    \/ Log \/ LogUnbound \/ Return

Spec == Init /\ [][Next]_vars

----------------------------------------------------------------------------
(* tweak_flt, tweak_align and apply_tweak_shifts.  An exposure is named by  *)
(* its position in `files`.  Its detections are projected to the pixel     *)
(* frame of the reference exposure through the two WCSs, which differ by a *)
(* small pixel offset.  The first two elements of a shift record are kept  *)
(* as twice the median, so that the median of an even count is an integer. *)

MaxFiles == 3      \* largest batch of exposures

\* catalogs of detections of one exposure
TweakCats == {<<>>,
              <<<<0, 0>>, <<10, 0>>>>,
              <<<<0, 0>>, <<1, 0>>>>,
              <<<<5, 0>>, <<11, 1>>>>,
              <<<<50, 50>>>>}

TweakOffs == {<<0, 0>>, <<1, 0>>}

TweakDists == {2, 6}

InitTweak ==
    /\ ClipIdle
    /\ AlignIdle
    /\ ExtraIdle
    /\ tw_pc = "start"
    /\ tw_entry \in {"tweak_flt", "tweak_align"}
    /\ \E n \in 0..MaxFiles :
          /\ tw_files = [k \in 1..n |-> k]
          /\ tw_cats \in [1..n -> TweakCats]
          /\ tw_offs \in {o \in [1..n -> TweakOffs] :
                             n > 0 => o[1] = <<0, 0>>}
    /\ tw_max_dist \in TweakDists
    /\ TweakLocals0

\* lines 1391-1392: xy = wcs_0.all_world2pix(wcs_i.all_pix2world(c_i))
Project(cat, off) == [j \in 1..Len(cat) |-> VAdd(cat[j], off)]

\* an index that need not be the nearest point
AnyIndex(tree, p) == 1..Len(tree)

\* the indices tree.query(p, k=1)[1] may return: a nearest point of the tree
Nearest(tree, p) ==
    {n \in 1..Len(tree) : Dist2(p, tree[n]) = Query(tree, p)}

\* the arrays `ix` that the loop of lines 1395-1397 may fill; a query on a
\* tree without points returns the index n = len(data)
IxChoices(tree, xy) ==
    IF tree = <<>> THEN {[j \in 1..Len(xy) |-> Len(tree) + 1]}
    ELSE {f \in [1..Len(xy) -> 1..Len(tree)] :
             \A j \in 1..Len(xy) : f[j] \in Nearest(tree, xy[j])}

\* twice np.median(s) of a non-empty sequence of integers
Median2(s) ==
    LET n == Len(s)
    IN  IF n % 2 = 1 THEN 2 * Kth(s, (n + 1) \div 2)
        ELSE Kth(s, n \div 2) + Kth(s, n \div 2 + 1)

RECURSIVE SeqSum(_)
SeqSum(s) == IF s = <<>> THEN 0 ELSE Head(s) + SeqSum(Tail(s))

\* the square of np.std(s)/np.sqrt(N), as <<numerator, denominator>>
StdErr2(s) ==
    LET n  == Len(s)
        sq == [k \in 1..n |-> s[k] * s[k]]
    IN  <<n * SeqSum(sq) - SeqSum(s) * SeqSum(s), n * n * n>>

\* line 1401: d[files[i]] = [0.0, 0.0, 0.0, 1.0]
NoMatchRecord == <<0, 0, 0, 1>>

\* the record with the median taken over every detection, matched or not
ShiftRecordAll(xy, ref, ix, ok) ==
    LET dr   == [j \in 1..Len(xy) |-> VSub(xy[j], ref[ix[j]])]
        good == Take(dr, ok)
        xs   == [k \in 1..Len(dr) |-> dr[k][1]]
        ys   == [k \in 1..Len(dr) |-> dr[k][2]]
    IN  <<Median2(xs), Median2(ys), 0, 1, Len(good),
          <<StdErr2(xs), StdErr2(ys)>>>>

\* lines 1407-1411: [dx[0], dx[1], 0.0, 1.0, ok.sum(), rms]
ShiftRecord(xy, ref, ix, ok) ==
    LET dr   == [j \in 1..Len(xy) |-> VSub(xy[j], ref[ix[j]])]
        good == Take(dr, ok)
        xs   == [k \in 1..Len(good) |-> good[k][1]]
        ys   == [k \in 1..Len(good) |-> good[k][2]]
    IN  <<Median2(xs), Median2(ys), 0, 1, Len(good),
          <<StdErr2(xs), StdErr2(ys)>>>>

\* d[key] = rec of an OrderedDict: a known key keeps its place
DictSet(dict, key, rec) ==
    IF \E k \in 1..Len(dict) : dict[k].key = key
    THEN [k \in 1..Len(dict) |->
             IF dict[k].key = key THEN [key |-> key, rec |-> rec]
             ELSE dict[k]]
    ELSE Append(dict, [key |-> key, rec |-> rec])

\* lines 1255-1257: fewer than two direct exposures
TweakAlignOne ==
    /\ tw_pc = "start"
    /\ tw_entry = "tweak_align"
    /\ Len(tw_files) < 2
    /\ tw_pc' = "returned_true"
    /\ UNCHANGED <<clipVars, alignVars, extraVars, tw_entry, tw_files, tw_cats, tw_offs,
                   tw_max_dist, tw_i, tw_d, tw_pairs, tw_k, tw_log,
                   tw_applied, tw_err>>

\* lines 1259-1261 and 1342-1387: the catalogs are made and the tree is built
TweakFltStart ==
    /\ tw_pc = "start"
    /\ tw_entry = "tweak_align" => Len(tw_files) >= 2
    /\ tw_files # <<>>
    /\ tw_i' = 0
    /\ tw_d' = <<>>
    /\ tw_pc' = "loop"
    /\ UNCHANGED <<clipVars, alignVars, extraVars, tw_entry, tw_files, tw_cats, tw_offs,
                   tw_max_dist, tw_pairs, tw_k, tw_log, tw_applied, tw_err>>

\* line 1382: cats[0] of an empty batch raises IndexError
TweakFltEmpty ==
    /\ tw_pc = "start"
    /\ tw_entry = "tweak_flt"
    /\ tw_files = <<>>
    /\ tw_pc' = "error"
    /\ tw_err' = "IndexError"
    /\ UNCHANGED <<clipVars, alignVars, extraVars, tw_entry, tw_files, tw_cats, tw_offs,
                   tw_max_dist, tw_i, tw_d, tw_pairs, tw_k, tw_log,
                   tw_applied>>

\* line 1384: the catalog of the reference exposure, in its own pixels
xy_0 == tw_cats[1]

\* lines 1389-1392 for the exposure the loop is at
TweakXY == Project(tw_cats[tw_i + 1], tw_offs[tw_i + 1])

\* `dist` keeps the zeros of np.zeros(N) when the tree has no point
TweakOkZeroFilled(xy) ==
    [j \in 1..Len(xy) |->
        xy_0 = <<>> \/ Closer(Query(xy_0, xy[j]), tw_max_dist)]

\* lines 1394-1399: ok = dist < max_dist
TweakOk(xy) ==
    [j \in 1..Len(xy) |-> Closer(Query(xy_0, xy[j]), tw_max_dist)]

\* the loop stops at an exposure without a match
TweakFltNoMatchBreak ==
    /\ tw_pc = "loop"
    /\ tw_i < Len(tw_files)
    /\ \A j \in 1..Len(TweakXY) : ~TweakOk(TweakXY)[j]
    /\ tw_d' = DictSet(tw_d, tw_files[tw_i + 1], NoMatchRecord)
    /\ tw_pairs' = Append(tw_pairs, <<>>)
    /\ tw_i' = Len(tw_files)
    /\ UNCHANGED <<clipVars, alignVars, extraVars, tw_pc, tw_entry, tw_files, tw_cats,
                   tw_offs, tw_max_dist, tw_k, tw_log, tw_applied, tw_err>>

\* lines 1388-1405: no detection within max_dist of a reference point
TweakFltNoMatch ==
    /\ tw_pc = "loop"
    /\ tw_i < Len(tw_files)
    /\ \A j \in 1..Len(TweakXY) : ~TweakOk(TweakXY)[j]
    /\ tw_d' = DictSet(tw_d, tw_files[tw_i + 1], NoMatchRecord)
    /\ tw_pairs' = Append(tw_pairs, <<>>)
    /\ tw_i' = tw_i + 1
    /\ UNCHANGED <<clipVars, alignVars, extraVars, tw_pc, tw_entry, tw_files, tw_cats,
                   tw_offs, tw_max_dist, tw_k, tw_log, tw_applied, tw_err>>

\* lines 1388-1414: the shift of an exposure with matched detections
TweakFltShift ==
    /\ tw_pc = "loop"
    /\ tw_i < Len(tw_files)
    /\ \E j \in 1..Len(TweakXY) : TweakOk(TweakXY)[j]
    /\ \E ix \in IxChoices(xy_0, TweakXY) :
          LET ok == TweakOk(TweakXY)
          IN  /\ tw_d' = DictSet(tw_d, tw_files[tw_i + 1],
                                 ShiftRecord(TweakXY, xy_0, ix, ok))
              /\ tw_pairs' = Append(tw_pairs,
                                Take([j \in 1..Len(ix) |-> <<j, ix[j]>>], ok))
    /\ tw_i' = tw_i + 1
    /\ UNCHANGED <<clipVars, alignVars, extraVars, tw_pc, tw_entry, tw_files, tw_cats,
                   tw_offs, tw_max_dist, tw_k, tw_log, tw_applied, tw_err>>

\* lines 1416-1417, and lines 1263-1269 when tweak_align made the call
TweakFltReturn ==
    /\ tw_pc = "loop"
    /\ tw_i >= Len(tw_files)
    /\ tw_pc' = IF tw_entry = "tweak_flt" THEN "flt_done" ELSE "log"
    /\ tw_k' = 0
    /\ UNCHANGED <<clipVars, alignVars, extraVars, tw_entry, tw_files, tw_cats, tw_offs,
                   tw_max_dist, tw_i, tw_d, tw_pairs, tw_log, tw_applied,
                   tw_err>>

\* the record has the elements d[0] .. d[5] that line 1273 formats
Formattable(rec) == Len(rec) >= 6

\* lines 1271-1273: the line of one exposure
TweakLogLine ==
    /\ tw_pc = "log"
    /\ tw_k < Len(tw_d)
    /\ Formattable(tw_d[tw_k + 1].rec)
    /\ tw_log' = Append(tw_log, tw_d[tw_k + 1])
    /\ tw_k' = tw_k + 1
    /\ UNCHANGED <<clipVars, alignVars, extraVars, tw_pc, tw_entry, tw_files, tw_cats,
                   tw_offs, tw_max_dist, tw_i, tw_d, tw_pairs, tw_applied,
                   tw_err>>

\* line 1273: d[4] of a record of four elements raises IndexError
TweakLogIndexError ==
    /\ tw_pc = "log"
    /\ tw_k < Len(tw_d)
    /\ ~Formattable(tw_d[tw_k + 1].rec)
    /\ tw_pc' = "error"
    /\ tw_err' = "IndexError"
    /\ UNCHANGED <<clipVars, alignVars, extraVars, tw_entry, tw_files, tw_cats, tw_offs,
                   tw_max_dist, tw_i, tw_d, tw_pairs, tw_k, tw_log,
                   tw_applied>>

\* lines 1275-1277: the log is closed and apply_tweak_shifts is called
TweakLogDone ==
    /\ tw_pc = "log"
    /\ tw_k >= Len(tw_d)
    /\ tw_pc' = "apply"
    /\ tw_k' = 0
    /\ UNCHANGED <<clipVars, alignVars, extraVars, tw_entry, tw_files, tw_cats, tw_offs,
                   tw_max_dist, tw_i, tw_d, tw_pairs, tw_log, tw_applied,
                   tw_err>>

\* lines 1429-1441: updatewcs_with_shift of one exposure
TweakApply ==
    /\ tw_pc = "apply"
    /\ tw_k < Len(tw_d)
    /\ tw_applied' = Append(tw_applied,
                            [file |-> tw_d[tw_k + 1].key,
                             xsh  |-> tw_d[tw_k + 1].rec[1],
                             ysh  |-> tw_d[tw_k + 1].rec[2]])
    /\ tw_k' = tw_k + 1
    /\ UNCHANGED <<clipVars, alignVars, extraVars, tw_pc, tw_entry, tw_files, tw_cats,
                   tw_offs, tw_max_dist, tw_i, tw_d, tw_pairs, tw_log,
                   tw_err>>

\* line 1458, then lines 1280-1281
TweakApplyDone ==
    /\ tw_pc = "apply"
    /\ tw_k >= Len(tw_d)
    /\ tw_pc' = "done"
    /\ UNCHANGED <<clipVars, alignVars, extraVars, tw_entry, tw_files, tw_cats, tw_offs,
                   tw_max_dist, tw_i, tw_d, tw_pairs, tw_k, tw_log,
                   tw_applied, tw_err>>

NextTweak ==
    \/ TweakAlignOne \/ TweakFltStart \/ TweakFltEmpty
    \/ TweakFltNoMatch \/ TweakFltShift \/ TweakFltReturn
    \/ TweakLogLine \/ TweakLogIndexError \/ TweakLogDone
    \/ TweakApply \/ TweakApplyDone

SpecTweak == InitTweak /\ [][NextTweak]_vars

----------------------------------------------------------------------------
(* Properties of clip_lists, stated on SpecClip *)

\* indices of `output` with a point of `input` at distance < clip
FwdSurvivors ==
    {j \in 1..Len(cl_output) :
        /\ cl_clip > 0
        /\ \E i \in 1..Len(cl_input) :
              Dist2(cl_output[j], cl_input[i]) < cl_clip * cl_clip}

\* indices of `input` with a forward survivor at distance < clip
BwdSurvivors ==
    {i \in 1..Len(cl_input) :
        /\ cl_clip > 0
        /\ \E j \in FwdSurvivors :
              Dist2(cl_input[i], cl_output[j]) < cl_clip * cl_clip}

\* the elements of s at the indices J, in increasing order of index
SubSeqAt(s, J) ==
    [k \in 1..Cardinality(J) |->
        s[CHOOSE j \in J : Cardinality({i \in J : i < j}) = k - 1]]

\* C1: clipping the pair returned by clip_lists again, with the same radius,
\* returns a pair again, made of exactly the same two lists.
ClipIdempotent ==
    cl_pc = "twice" =>
        /\ cl_second.ok
        /\ cl_second.in_arr = cl_first.in_arr
        /\ cl_second.out_arr = cl_first.out_arr

\* a second clip of a result from which the first clip removed points
ClipIdempotentWitness ==
    /\ cl_pc = "twice"
    /\ Len(cl_first.in_arr) < Len(cl_input)
    /\ Len(cl_first.out_arr) < Len(cl_output)
    /\ Len(cl_first.in_arr) >= 2

\* C4: clip_lists returns False whenever the forward or the backward pass
\* leaves no survivor, and a pair it returns has no empty member.
ClipNeverEmptyPair ==
    cl_pc # "new" =>
        /\ (FwdSurvivors = {} \/ BwdSurvivors = {}) => ~cl_first.ok
        /\ cl_first.ok => cl_first.in_arr # <<>> /\ cl_first.out_arr # <<>>

\* two non-empty lists with no point of one within the radius of the other
ClipNoMatchesWitness ==
    /\ cl_pc = "once"
    /\ cl_input # <<>> /\ cl_output # <<>> /\ cl_clip > 0
    /\ ~cl_first.ok

\* C5: each returned list is the sub-sequence, in the original order, of
\* the points whose nearest neighbour in the indexed list is at a distance
\* strictly below the radius; a point exactly at the radius is dropped.
ClipKeepsOrderStrictRadius ==
    (cl_pc # "new" /\ cl_first.ok) =>
        /\ cl_first.out_arr = SubSeqAt(cl_output, FwdSurvivors)
        /\ cl_first.in_arr = SubSeqAt(cl_input, BwdSurvivors)

\* a returned pair where a point exactly at the radius has been dropped and
\* two points were kept, the dropped one between them
ClipStrictRadiusWitness ==
    /\ cl_pc = "once" /\ cl_first.ok
    /\ Len(cl_output) = 3 /\ Len(cl_first.out_arr) = 2
    /\ 2 \notin FwdSurvivors
    /\ Query(cl_input, cl_output[2]) = cl_clip * cl_clip

\* C6: a non-empty list clipped against an identical copy with a positive
\* radius comes back whole, twice.
ClipIdentityKeepsAll ==
    (cl_pc # "new" /\ cl_input = cl_output /\ cl_input # <<>> /\ cl_clip > 0)
        => /\ cl_first.ok
           /\ cl_first.in_arr = cl_input
           /\ cl_first.out_arr = cl_output

\* a list of distinct points clipped against itself
ClipIdentityWitness ==
    /\ cl_pc = "once" /\ cl_clip > 0
    /\ cl_input = cl_output
    /\ Len(cl_input) >= 2 /\ cl_input[1] # cl_input[2]
    /\ cl_first.ok

----------------------------------------------------------------------------
(* Properties of align_drizzled_image, stated on Spec *)

\* positions in mcalls of the calls of one phase
CallsOf(ph) == {k \in 1..Len(mcalls) : mcalls[k].phase = ph}

\* the three attempts of the failure-escalation phase have all raised
AllAttemptsFailed ==
    /\ Cardinality(CallsOf("fail")) = 3
    /\ \A k \in CallsOf("fail") : ~mcalls[k].ok

\* C2: once match_lists has raised at the tolerances 5, 10 and 15 of an
\* iteration, the run ends in a failure: the iteration never reaches the
\* low-yield retries' result, the outlier check or the accumulation.
ExhaustedMatchAborts ==
    AllAttemptsFailed =>
        pc \notin {"outlier", "refit", "report", "accumulate", "for", "clip",
                   "log", "return", "done"}

\* C3: when clip_lists returns False the run does not end in an unhandled
\* error.
NoMatchesIsNotFatal ==
    ~(pc = "error" /\ err = "TypeError" /\ ~ClipStatus.ok)

\* C7: the attempts of the failure-escalation phase are made at the
\* tolerances 5, 10, 15, at most three of them, the first success ends the
\* phase, and the iteration goes on with the correspondences and the
\* transform which that attempt returned.
EscalationKeepsFirstSuccess ==
    LET F == CallsOf("fail")
    IN  /\ Cardinality(F) <= 3
        /\ \A k \in F : /\ F = 1..Cardinality(F)
                        /\ mcalls[k].toler = 5 * k
                        /\ mcalls[k].ok => k = Cardinality(F)
        /\ (pc = "lowyield" /\ Len(mcalls) = Cardinality(F) /\ F # {}
              /\ mcalls[Len(mcalls)].ok)
           => /\ res = last_res
              /\ output_ix = last_res.input_ix
              /\ input_ix = last_res.output_ix
              /\ tf = last_res.model
              /\ Len(input_ix) = mcalls[Len(mcalls)].n
              /\ toler = 5 * Len(mcalls)

\* match_lists raised at 5 and at 10 and returned at 15
EscalationWitness ==
    /\ pc = "lowyield"
    /\ Len(mcalls) = 3
    /\ ~mcalls[1].ok /\ ~mcalls[2].ok
    /\ mcalls[3].ok /\ mcalls[3].toler = 15 /\ mcalls[3].phase = "fail"

\* number of pairs in force before the call at position k of mcalls, for an
\* iteration whose failure-escalation phase ended with a success
InForceBefore(k) ==
    LET prev == {j \in 1..(k - 1) : mcalls[j].ok /\ mcalls[j].phase # "refit"}
    IN  mcalls[CHOOSE j \in prev : \A i \in prev : i <= j].n

\* C8: after a successful first match, a low-yield retry is made only while
\* fewer than one in ten of the clipped points are matched, each at a
\* tolerance 5 above the one before, at most three times; the phase is left
\* only with a fraction of at least 0.1 or after the third retry; and after
\* a retry that raised, the result of the last call that returned is still
\* the one in force.
LowYieldRetries ==
    LET L == CallsOf("low")
    IN  (\E k \in CallsOf("fail") : mcalls[k].ok) =>
          /\ Cardinality(L) <= 3
          /\ \A k \in L : /\ mcalls[k].toler = mcalls[k - 1].toler + 5
                          /\ 10 * InForceBefore(k) < Len(input)
          /\ pc \in {"outlier", "refit", "report", "accumulate"}
                => (10 * Len(input_ix) >= Len(input) \/ Cardinality(L) = 3)
          /\ pc \in {"lowyield", "outlier"}
                => /\ res = last_res
                   /\ output_ix = last_res.input_ix
                   /\ input_ix = last_res.output_ix
                   /\ tf = last_res.model
                   /\ Len(input_ix) = InForceBefore(Len(mcalls) + 1)

\* three retries have been made, the last of them raised, and the phase is
\* over with the fraction still below 0.1
LowYieldWitness ==
    /\ pc = "outlier"
    /\ \E k \in CallsOf("fail") : mcalls[k].ok
    /\ Cardinality(CallsOf("low")) = 3
    /\ ~mcalls[Len(mcalls)].ok
    /\ 10 * Len(input_ix) < Len(input)

\* an upper bound on the number of steps the run can still take
TimeLeft ==
    CASE pc = "start"      -> 20 * NITER + 4
      [] pc = "for"        -> 20 * (NITER - iter) + 3
      [] pc = "clip"       -> 20 * (NITER - iter - 1) + 16
      [] pc = "match"      -> 20 * (NITER - iter - 1) + 15 - titer
      [] pc = "lowyield"   -> 20 * (NITER - iter - 1) + 11 - titer
      [] pc = "outlier"    -> 20 * (NITER - iter - 1) + 7
      [] pc = "refit"      -> 20 * (NITER - iter - 1) + 6
      [] pc = "report"     -> 20 * (NITER - iter - 1) + 5
      [] pc = "accumulate" -> 20 * (NITER - iter - 1) + 4
      [] pc = "log"        -> 2
      [] pc = "return"     -> 1
      [] OTHER             -> 0

\* C9: the run always ends (every step uses up some of a bounded number of
\* steps left, which depends on NITER and on the retry bounds only), and a
\* run that returns has made exactly NITER iterations, however small the
\* shifts found along the way.
AlwaysEndsAfterNITER ==
    /\ [][TimeLeft' < TimeLeft]_vars
    /\ [](TimeLeft >= 0)
    /\ [](pc \in {"return", "done"} => iter = NITER /\ Len(tfs) = NITER)

\* a run that returned after two iterations, the first of which found
\* nothing to correct
FixedCountWitness ==
    /\ pc = "done" /\ NITER >= 2 /\ iter = NITER
    /\ tfs[1] = TF0

\* the effect of the transforms ts applied one after another, first to last
RECURSIVE ApplySeq(_, _)
ApplySeq(ts, p) ==
    IF ts = <<>> THEN p ELSE ApplySeq(Tail(ts), Apply(Head(ts), p))

RECURSIVE SumTranslations(_)
SumTranslations(ts) ==
    IF ts = <<>> THEN <<0, 0>>
    ELSE VAdd(Head(ts).translation, SumTranslations(Tail(ts)))

Probes == {<<0, 0>>, <<1, 0>>, <<0, 1>>, <<2, 3>>}

\* the returned (shift, rotation in degrees, scale) as one transform
ReturnedTransform ==
    [translation |-> result.out_shift,
     rotation    |-> result.out_rot \div 90,
     scale       |-> result.out_scale]

----------------------------------------------------------------------------
(* Properties of the log and of the outlier check, stated on Spec *)

LogCountsLastInliers ==
    (log /\ NITER >= 1 /\ iter = NITER /\ pc \in {"return", "done", "error"})
        => /\ wcs_log # <<>>
           /\ wcs_log[Len(wcs_log)].n = Count(outliers, LAMBDA o : ~o)

RefitCalls == {k \in 1..Len(mcalls) : mcalls[k].phase = "refit"}

\* the steps of an iteration from the outlier test to the accumulation
RefitStep ==
    /\ pc = "refit" =>
          LET dr   == Residuals(tf, Pick(output, output_ix),
                                    Pick(input, input_ix))
              rms  == nmad(dr)
              good == Count(dr, LAMBDA r : ~(r > 4 * rms))
              last == mcalls'[Len(mcalls')]
          IN  IF \E k \in 1..Len(dr) : dr[k] > 4 * rms
              THEN /\ Len(mcalls') = Len(mcalls) + 1
                   /\ last.phase = "refit"
                   /\ pc' \in {"report", "error"}
                   /\ pc' = "report" =>
                         /\ last.ok
                         /\ last.n <= good
                         /\ tf' = last.model
              ELSE /\ mcalls' = mcalls
                   /\ tf' = tf
                   /\ pc' = "report"
    /\ pc = "report" => tf' = tf /\ mcalls' = mcalls
    /\ pc = "accumulate" => tfs' = Append(tfs, tf)

\* C13: an iteration refits at most once; it calls the refit exactly when
\* some residual exceeds 4 times the robust dispersion; the refit matches
\* non-outlier correspondences only; the transform accumulated is the one
\* the refit returned when there was a refit, and the first fit otherwise.
RefitOncePerIteration ==
    /\ [](Cardinality(RefitCalls) <= 1)
    /\ [][RefitStep]_vars

\* an iteration whose refit, on a part of the correspondences, replaced
\* the transform of the first fit
RefitWitness ==
    /\ pc = "accumulate"
    /\ RefitCalls # {}
    /\ tf # res.model
    /\ \E k \in 1..Len(outliers) : outliers[k]
    /\ \E k \in 1..Len(outliers) : ~outliers[k]
    /\ \A k \in RefitCalls : mcalls[k].n > 1

\* C14: when the robust dispersion of the residuals is 0, the outlier test
\* flags the correspondences whose residual is not zero, and no other.
ZeroDispersionFlagsNonZero ==
    pc = "refit" =>
        LET a  == Pick(output, output_ix)
            b  == Pick(input, input_ix)
            dr == Residuals(tf, a, b)
        IN  nmad(dr) = 0 =>
                \A k \in 1..Len(dr) :
                    outliers[k] <=> VSub(b[k], Apply(tf, a[k])) # <<0, 0>>

\* a dispersion of 0 with both zero and non-zero residuals
ZeroDispersionWitness ==
    /\ pc = "refit"
    /\ nmad(Residuals(tf, Pick(output, output_ix), Pick(input, input_ix))) = 0
    /\ \E k \in 1..Len(outliers) : outliers[k]
    /\ \E k \in 1..Len(outliers) : ~outliers[k]

\* C15: once the loop is entered, no step changes the reference coordinate
\* array, xy_drz or the WCS returned as orig_wcs.
LoopKeepsOriginals ==
    [][pc \notin {"idle", "start"} =>
          /\ rd_ref' = rd_ref
          /\ xy_drz' = xy_drz
          /\ orig_wcs' = orig_wcs]_vars

----------------------------------------------------------------------------
(* Properties of tweak_flt and tweak_align, stated on SpecTweak *)

\* exposure k has no projected detection within max_dist of a reference
\* detection
NoDetectionNear(k) ==
    ~\E j \in 1..Len(tw_cats[k]), n \in 1..Len(tw_cats[1]) :
        /\ tw_max_dist > 0
        /\ Dist2(VAdd(tw_cats[k][j], tw_offs[k]), tw_cats[1][n])
               < tw_max_dist * tw_max_dist

\* C16: tweak_flt on a batch with a reference exposure does not fail; each
\* exposure its loop has passed, the reference included, has one record, in
\* the order of `files`; an exposure with no detection within max_dist has
\* a zero shift, and the exposures after it are processed.
OneRecordPerExposure ==
    /\ tw_pc = "loop" => Len(tw_d) = tw_i
    /\ tw_pc \in {"flt_done", "log", "apply", "done"} =>
          Len(tw_d) = Len(tw_files)
    /\ \A k \in 1..Len(tw_d) :
          /\ tw_d[k].key = tw_files[k]
          /\ NoDetectionNear(k) => tw_d[k].rec[1] = 0 /\ tw_d[k].rec[2] = 0
    /\ (tw_entry = "tweak_flt" /\ tw_files # <<>>) => tw_pc # "error"

\* three exposures, the second without a match, the third with a shift
OneRecordPerExposureWitness ==
    /\ tw_pc = "flt_done"
    /\ Len(tw_files) = 3 /\ Len(tw_d) = 3
    /\ NoDetectionNear(2)
    /\ ~NoDetectionNear(3)
    /\ tw_d[3].rec[1] # 0

\* C17: every record of tweak_flt has the six elements dx, dy, rotation 0,
\* scale 1, match count and rms pair.
RecordsSameShape ==
    \A k \in 1..Len(tw_d) :
        /\ Len(tw_d[k].rec) = 6
        /\ tw_d[k].rec[3] = 0
        /\ tw_d[k].rec[4] = 1

\* C18: tweak_align on a batch of two or more exposures, one of them
\* without a match, raises nothing, and ends with a log line for every
\* exposure and with every exposure updated.
NoMatchBatchCompletes ==
    (/\ tw_entry = "tweak_align"
     /\ Len(tw_files) >= 2
     /\ \E k \in 1..Len(tw_files) : NoDetectionNear(k))
        => /\ tw_pc # "error"
           /\ tw_pc = "done" =>
                 /\ Len(tw_log) = Len(tw_files)
                 /\ Len(tw_applied) = Len(tw_files)

PairsOneToOne ==
    \A k \in 1..Len(tw_pairs) :
        \A a, b \in 1..Len(tw_pairs[k]) :
            a # b => /\ tw_pairs[k][a][1] # tw_pairs[k][b][1]
                     /\ tw_pairs[k][a][2] # tw_pairs[k][b][2]

\* C20: in the pairs of an exposure no detection appears twice, and each
\* detection is paired with a reference point nearest to it, closer than
\* max_dist; the match count of the record is the number of pairs.
DetectionsPairedOnce ==
    \A k \in 1..Len(tw_pairs) :
        LET P  == tw_pairs[k]
            xy == Project(tw_cats[k], tw_offs[k])
        IN  /\ \A a, b \in 1..Len(P) : a # b => P[a][1] # P[b][1]
            /\ \A a \in 1..Len(P) :
                  /\ P[a][1] \in 1..Len(xy)
                  /\ P[a][2] \in 1..Len(tw_cats[1])
                  /\ Dist2(xy[P[a][1]], tw_cats[1][P[a][2]])
                         < tw_max_dist * tw_max_dist
                  /\ \A n \in 1..Len(tw_cats[1]) :
                        Dist2(xy[P[a][1]], tw_cats[1][P[a][2]])
                            <= Dist2(xy[P[a][1]], tw_cats[1][n])
            /\ P # <<>> => tw_d[k].rec[5] = Len(P)

\* two detections of one exposure paired with the same reference point
SharedReferenceWitness ==
    \E k \in 1..Len(tw_pairs) :
        \E a, b \in 1..Len(tw_pairs[k]) :
            a # b /\ tw_pairs[k][a][2] = tw_pairs[k][b][2]

\* s in non-decreasing order
SortedSeq(s) ==
    CHOOSE t \in [1..Len(s) -> Range(s)] :
        /\ \A a \in 1..Len(s) - 1 : t[a] <= t[a + 1]
        /\ \A v \in Range(s) :
              Count(t, LAMBDA x : x = v) = Count(s, LAMBDA x : x = v)

\* twice the middle of the sorted sequence
MiddleTwice(s) ==
    LET t == SortedSeq(s)
        n == Len(s)
    IN  IF n % 2 = 1 THEN 2 * t[(n + 1) \div 2]
        ELSE t[n \div 2] + t[n \div 2 + 1]

\* the detections of exposure k that have a reference point closer than
\* max_dist
MatchedDetections(k) ==
    {j \in 1..Len(tw_cats[k]) :
        \E n \in 1..Len(tw_cats[1]) :
            /\ tw_max_dist > 0
            /\ Dist2(VAdd(tw_cats[k][j], tw_offs[k]), tw_cats[1][n])
                   < tw_max_dist * tw_max_dist}

\* C23: the record of an exposure with a match holds the number of its
\* detections whose nearest reference point is closer than max_dist, and,
\* component by component, the median over those detections of the offset
\* from a nearest reference point (kept as twice its value).
ShiftIsMedianOfMatched ==
    \A k \in 1..Len(tw_d) :
        LET J  == MatchedDetections(k)
            xy == Project(tw_cats[k], tw_offs[k])
        IN  /\ J # {} <=> Len(tw_d[k].rec) = 6
            /\ J # {} =>
                  /\ tw_d[k].rec[5] = Cardinality(J)
                  /\ \E f \in [J -> 1..Len(tw_cats[1])] :
                        /\ \A j \in J, n \in 1..Len(tw_cats[1]) :
                              Dist2(xy[j], tw_cats[1][f[j]])
                                  <= Dist2(xy[j], tw_cats[1][n])
                        /\ LET js == SubSeqAt([j \in 1..Len(xy) |-> j], J)
                               dx == [a \in 1..Len(js) |->
                                         xy[js[a]][1] - tw_cats[1][f[js[a]]][1]]
                               dy == [a \in 1..Len(js) |->
                                         xy[js[a]][2] - tw_cats[1][f[js[a]]][2]]
                           IN  /\ tw_d[k].rec[1] = MiddleTwice(dx)
                               /\ tw_d[k].rec[2] = MiddleTwice(dy)

\* an exposure with a detection at exactly max_dist from the reference, left
\* out, and a shift of an odd number of half pixels
MedianWitness ==
    /\ tw_pc = "flt_done"
    /\ \E k \in 1..Len(tw_d) :
          /\ Len(tw_d[k].rec) = 6
          /\ tw_d[k].rec[5] < Len(tw_cats[k])
          /\ \E j \in 1..Len(tw_cats[k]) :
                Query(tw_cats[1], VAdd(tw_cats[k][j], tw_offs[k]))
                    = tw_max_dist * tw_max_dist
    /\ \E k \in 1..Len(tw_d) :
          Len(tw_d[k].rec) = 6 /\ tw_d[k].rec[1] % 2 = 1

----------------------------------------------------------------------------
(* Properties of the accumulators and of the tolerance, stated on Spec *)

RECURSIVE SumRotations(_)
SumRotations(ts) ==
    IF ts = <<>> THEN 0 ELSE Head(ts).rotation + SumRotations(Tail(ts))

RECURSIVE ProductScales(_)
ProductScales(ts) ==
    IF ts = <<>> THEN 1 ELSE Head(ts).scale * ProductScales(Tail(ts))

\* the accumulators after the iterations made so far
AccumulatorsAreSums ==
    pc \notin {"idle", "start", "returned_false"} =>
        /\ out_shift = SumTranslations(tfs)
        /\ out_rot = -SumRotations(tfs)
        /\ out_scale = ProductScales(tfs)
        /\ drz_wcs.crpix = VAdd(WCS0.crpix, out_shift)

\* C26: after every completed iteration out_shift is the sum of the
\* translations, out_rot minus the sum of the rotations, out_scale the
\* product of the scales and the reference pixel of the working WCS the
\* original one plus out_shift; a run with NITER = 0 ends by returning
\* shift (0, 0), rotation 0, scale 1 and the working WCS unchanged.
AccumulatorsAndEmptyRun ==
    /\ AccumulatorsAreSums
    /\ (NITER = 0 /\ pc \in {"error", "done"}) =>
          /\ pc = "done"
          /\ result.out_shift = <<0, 0>>
          /\ result.out_rot = 0
          /\ result.out_scale = 1
          /\ result.drz_wcs = WCS0

\* C27: within an iteration the tolerance given to match_lists starts at 5,
\* never decreases from a call to the next, is a multiple of 5 and is at
\* most 35; it is 5 again when the next iteration starts; an iteration
\* makes at most 3 escalation attempts, 3 low-yield retries and 1 refit.
ToleranceBounded ==
    /\ \A k \in 1..Len(mcalls) :
          /\ mcalls[k].toler % 5 = 0
          /\ mcalls[k].toler >= 5 /\ mcalls[k].toler <= 35
          /\ k > 1 => mcalls[k - 1].toler <= mcalls[k].toler
    /\ mcalls # <<>> => mcalls[1].toler = 5
    /\ (pc = "match" /\ mcalls = <<>>) => toler = 5
    /\ Len(mcalls) <= 7
    /\ Cardinality(CallsOf("fail")) <= 3
    /\ Cardinality(CallsOf("low")) <= 3
    /\ Cardinality(CallsOf("refit")) <= 1

\* a second iteration that made seven calls, the last ones at tolerance 35
SevenCallsWitness ==
    /\ iter >= 1
    /\ Len(mcalls) = 7
    /\ mcalls[6].toler = 35 /\ mcalls[6].phase = "low"
    /\ mcalls[7].phase = "refit"

\* a result of match_lists without the flags of lines 424-430
NoFlags(r) ==
    [input_ix |-> r.input_ix, output_ix |-> r.output_ix, model |-> r.model]

\* the mask of line 528 is kept until match_lists returns again
MaskKept ==
    pc \in {"refit", "report", "accumulate", "for", "clip", "log", "return"}
        => outliers' = outliers

\* every call of match_lists in an iteration is given the same two lists
ListsKept ==
    pc \in {"match", "lowyield"} => (input' = input /\ output' = output)

\* C29: outlier_threshold does not reach the outcome of a run.  It changes
\* nothing but the flags in the value of match_lists, for the lists of the
\* first call of an iteration and so for its retries; the mask that the
\* refit decision, the refit, NGOOD and the logged rms and N read is the
\* one of line 528, computed from the fitted transform and the index lists,
\* which replaces those flags before they are read.
ThresholdIgnored ==
    /\ [](/\ (pc = "match" /\ titer = 0) =>
                \A t \in ThresholdArgs :
                  {NoFlags(r) : r \in MatchLists(output, input, t)}
                      = {NoFlags(r) :
                            r \in MatchLists(output, input, outlier_threshold)}
          /\ pc = "refit" =>
                LET dr == Residuals(tf, Pick(output, output_ix),
                                        Pick(input, input_ix))
                IN  outliers = [k \in 1..Len(dr) |-> dr[k] > 4 * nmad(dr)]
          /\ pc = "report" => (RefitCalls # {} <=> AnyOutlier)
          /\ (pc = "accumulate" /\ verbose) =>
                NGOOD = Count(outliers, LAMBDA o : ~o)
          /\ wcs_log # <<>> =>
                wcs_log[1].n = Count(outliers, LAMBDA o : ~o))
    /\ [][MaskKept /\ ListsKept]_vars

\* a run with threshold 0 whose match_lists flags differ from the mask of
\* line 528 and that went on to log
ThresholdWitness ==
    /\ pc = "done"
    /\ outlier_threshold = 0
    /\ wcs_log # <<>>
    /\ res.outliers # outliers

----------------------------------------------------------------------------
(* get_radec_catalog: the choice of the astrometric reference catalog.     *)
(* A query is given by what it does when it is made; a query that is never *)
(* made leaves no trace.  Table.read of a local catalog and the writes of  *)
(* the .radec files succeed.                                               *)

Rows(n) == [kind |-> "table", n |-> n]

ReturnsNone == [kind |-> "none", n |-> 0]

SdssAnswers == {Raises, ReturnsNone, Rows(5), Rows(6)}

GaiaAnswers == {Raises, ReturnsNone, Rows(1), Rows(2)}

WiseAnswers == {Raises, Rows(0), Rows(3)}

\* product = 'p-f140w': the catalogs that 'p-f*cat' can match, in glob order
LocalCats == {<<>>, <<"p-f140w.cat">>, <<"p-f105w.cat", "p-f140w.cat">>}

\* '{0}_sdss.radec'.format(product), and the like
RadecFile(catalog) ==
    CASE catalog = "SDSS" -> "p-f140w_sdss.radec"
      [] catalog = "GAIA" -> "p-f140w_gaia.radec"
      [] catalog = "WISE" -> "p-f140w_wise.radec"
      [] OTHER -> ""

\* '{0}.radec'.format(cat_file.split('.cat')[0])
VisitRadec(cat_file) ==
    CASE cat_file = "p-f140w.cat" -> "p-f140w.radec"
      [] cat_file = "p-f105w.cat" -> "p-f105w.radec"
      [] OTHER -> ""

InitRadec ==
    /\ rc_pc = "sdss"
    /\ rc_verbose \in BOOLEAN
    /\ rc_sdss \in SdssAnswers
    /\ rc_gaia \in GaiaAnswers
    /\ rc_wise \in WiseAnswers
    /\ rc_cat_files \in LocalCats
    /\ RadecLocals0
    /\ NotRadecIdle

\* the assignments that select a catalog (lines 926-930, 939-944, 955-960)
RcSelect(catalog) ==
    /\ rc_files' = rc_files \cup {RadecFile(catalog)}
    /\ radec' = RadecFile(catalog)
    /\ ref_catalog' = catalog
    /\ rc_bound' = rc_bound \cup {"radec", "ref_catalog"}

\* lines 914-931: len(sdss) with `except` and None both giving []
RcSdss ==
    /\ rc_pc = "sdss"
    /\ rc_asked' = Append(rc_asked, "SDSS")
    /\ IF rc_sdss.kind = "table" /\ rc_sdss.n > 5
       THEN RcSelect("SDSS") /\ has_catalog' = TRUE
       ELSE UNCHANGED <<rc_files, radec, ref_catalog, rc_bound, has_catalog>>
    /\ rc_pc' = "gaia"
    /\ UNCHANGED <<notRadec, rc_verbose, rc_sdss, rc_gaia, rc_wise,
                   rc_cat_files, rc_result, rc_err>>

\* lines 934-948 with the test of line 934 left out
RcGaiaUnguarded ==
    /\ rc_pc = "gaia"
    /\ rc_asked' = Append(rc_asked, "GAIA")
    /\ IF rc_gaia.kind = "table" /\ ~(rc_gaia.n < 2)
       THEN RcSelect("GAIA") /\ has_catalog' = TRUE
       ELSE /\ has_catalog' = FALSE
            /\ UNCHANGED <<rc_files, radec, ref_catalog, rc_bound>>
    /\ rc_pc' = "wise"
    /\ UNCHANGED <<notRadec, rc_verbose, rc_sdss, rc_gaia, rc_wise,
                   rc_cat_files, rc_result, rc_err>>

\* lines 934-948: len(None) and `raise ValueError` both end in the except
RcGaia ==
    /\ rc_pc = "gaia"
    /\ IF ~has_catalog
       THEN /\ rc_asked' = Append(rc_asked, "GAIA")
            /\ IF rc_gaia.kind = "table" /\ ~(rc_gaia.n < 2)
               THEN RcSelect("GAIA") /\ has_catalog' = TRUE
               ELSE /\ has_catalog' = FALSE
                    /\ UNCHANGED <<rc_files, radec, ref_catalog, rc_bound>>
       ELSE UNCHANGED <<rc_asked, rc_files, radec, ref_catalog, rc_bound,
                        has_catalog>>
    /\ rc_pc' = "wise"
    /\ UNCHANGED <<notRadec, rc_verbose, rc_sdss, rc_gaia, rc_wise,
                   rc_cat_files, rc_result, rc_err>>

\* lines 951-962: no test of the length, has_catalog is left alone
RcWise ==
    /\ rc_pc = "wise"
    /\ IF ~has_catalog
       THEN /\ rc_asked' = Append(rc_asked, "WISE")
            /\ IF rc_wise.kind = "table"
               THEN RcSelect("WISE")
               ELSE UNCHANGED <<rc_files, radec, ref_catalog, rc_bound>>
       ELSE UNCHANGED <<rc_asked, rc_files, radec, ref_catalog, rc_bound>>
    /\ rc_pc' = "visit"
    /\ UNCHANGED <<notRadec, rc_verbose, rc_sdss, rc_gaia, rc_wise,
                   rc_cat_files, has_catalog, rc_result, rc_err>>

\* lines 966-974
RcVisit ==
    /\ rc_pc = "visit"
    /\ IF Len(rc_cat_files) > 0
       THEN /\ rc_files' = rc_files \cup {VisitRadec(rc_cat_files[1])}
            /\ radec' = VisitRadec(rc_cat_files[1])
            /\ ref_catalog' = "VISIT"
            /\ rc_bound' = rc_bound \cup {"radec", "ref_catalog"}
       ELSE UNCHANGED <<rc_files, radec, ref_catalog, rc_bound>>
    /\ rc_pc' = "return"
    /\ UNCHANGED <<notRadec, rc_verbose, rc_sdss, rc_gaia, rc_wise,
                   rc_cat_files, rc_asked, has_catalog, rc_result, rc_err>>

\* lines 976-979 when radec and ref_catalog were assigned
RcReturn ==
    /\ rc_pc = "return"
    /\ {"radec", "ref_catalog"} \subseteq rc_bound
    /\ rc_result' = <<radec, ref_catalog>>
    /\ rc_pc' = "done"
    /\ UNCHANGED <<notRadec, rc_verbose, rc_sdss, rc_gaia, rc_wise,
                   rc_cat_files, rc_asked, has_catalog, radec, ref_catalog,
                   rc_bound, rc_files, rc_err>>

\* lines 976-979 when they were not: the read of `radec` at line 977
\* (verbose) or at line 979 raises UnboundLocalError
RcUnbound ==
    /\ rc_pc = "return"
    /\ ~({"radec", "ref_catalog"} \subseteq rc_bound)
    /\ rc_err' = "UnboundLocalError"
    /\ rc_pc' = "error"
    /\ UNCHANGED <<notRadec, rc_verbose, rc_sdss, rc_gaia, rc_wise,
                   rc_cat_files, rc_asked, has_catalog, radec, ref_catalog,
                   rc_bound, rc_files, rc_result>>

NextRadec ==
    \/ RcSdss
    \/ RcGaia
    \/ RcWise
    \/ RcVisit
    \/ RcReturn
    \/ RcUnbound

SpecRadec == InitRadec /\ [][NextRadec]_vars

\* the query found a usable catalog
Usable(catalog) ==
    CASE catalog = "SDSS" -> rc_sdss.kind = "table" /\ rc_sdss.n > 5
      [] catalog = "GAIA" -> rc_gaia.kind = "table" /\ rc_gaia.n >= 2
      [] catalog = "WISE" -> rc_wise.kind = "table"
      [] OTHER -> FALSE

Priority == <<"SDSS", "GAIA", "WISE">>

RadecAlwaysReturns ==
    /\ rc_pc # "error"
    /\ rc_pc = "return" => {"radec", "ref_catalog"} \subseteq rc_bound

----------------------------------------------------------------------------
(* Two calls of process_direct_grism_visit, for two products, running at   *)
(* once in one working directory.  The files named after the product       *)
(* belong to one job; get_gaia_catalog keeps its download in 'gaia.vot.gz' *)
(* and 'gaia.vot', whatever the product.  The GAIA query of job j returns  *)
(* the table j, with enough rows; WISE answers when it is asked.           *)

Jobs == {1, 2}

StaleTable == 3        \* a 'gaia.vot' left by an earlier run

Other(j) == 3 - j

InitJobs ==
    /\ jb_pc = [j \in 1..2 |-> "new"]
    /\ jb_sdss \in [1..2 -> BOOLEAN]
    /\ gaia_vot_gz = 0
    /\ gaia_vot \in {0, StaleTable}
    /\ jb_table = [j \in 1..2 |-> 0]
    /\ jb_ref = [j \in 1..2 |-> ""]
    /\ jb_log \in [1..2 -> {<<>>, <<[ref |-> "OLD", table |-> 0]>>}]
    /\ NotJobsIdle

\* lines 1042-1046 with 914-934: SDSS is taken, or GAIA is asked
JobQuery(j) ==
    /\ jb_pc[j] = "new"
    /\ IF jb_sdss[j]
       THEN /\ jb_ref' = [jb_ref EXCEPT ![j] = "SDSS"]
            /\ jb_pc' = [jb_pc EXCEPT ![j] = "drizzle"]
       ELSE /\ jb_pc' = [jb_pc EXCEPT ![j] = "gaia_write"]
            /\ UNCHANGED jb_ref
    /\ UNCHANGED <<notJobs, jb_sdss, gaia_vot_gz, gaia_vot, jb_table, jb_log>>

\* lines 869-874: the answer of the query is written to 'gaia.vot.gz'
JobGaiaWrite(j) ==
    /\ jb_pc[j] = "gaia_write"
    /\ gaia_vot_gz' = j
    /\ jb_pc' = [jb_pc EXCEPT ![j] = "gaia_remove"]
    /\ UNCHANGED <<notJobs, jb_sdss, gaia_vot, jb_table, jb_ref, jb_log>>

\* lines 877-880
JobGaiaRemove(j) ==
    /\ jb_pc[j] = "gaia_remove"
    /\ gaia_vot' = 0
    /\ jb_pc' = [jb_pc EXCEPT ![j] = "gaia_gunzip"]
    /\ UNCHANGED <<notJobs, jb_sdss, gaia_vot_gz, jb_table, jb_ref, jb_log>>

\* line 882: gunzip fails without 'gaia.vot.gz'; when 'gaia.vot' exists it
\* overwrites it or leaves both files, as its standard input decides
JobGunzip(j) ==
    /\ jb_pc[j] = "gaia_gunzip"
    /\ \E overwrite \in BOOLEAN :
         IF gaia_vot_gz # 0 /\ (gaia_vot = 0 \/ overwrite)
         THEN gaia_vot' = gaia_vot_gz /\ gaia_vot_gz' = 0
         ELSE UNCHANGED <<gaia_vot, gaia_vot_gz>>
    /\ jb_pc' = [jb_pc EXCEPT ![j] = "gaia_read"]
    /\ UNCHANGED <<notJobs, jb_sdss, jb_table, jb_ref, jb_log>>

\* lines 883-884 with 936-962: Table.read raises without 'gaia.vot', which
\* get_radec_catalog takes as a failed GAIA query, and WISE is used
JobGaiaRead(j) ==
    /\ jb_pc[j] = "gaia_read"
    /\ IF gaia_vot # 0
       THEN /\ jb_table' = [jb_table EXCEPT ![j] = gaia_vot]
            /\ jb_ref' = [jb_ref EXCEPT ![j] = "GAIA"]
       ELSE /\ jb_ref' = [jb_ref EXCEPT ![j] = "WISE"]
            /\ UNCHANGED jb_table
    /\ jb_pc' = [jb_pc EXCEPT ![j] = "drizzle"]
    /\ UNCHANGED <<notJobs, jb_sdss, gaia_vot_gz, gaia_vot, jb_log>>

\* lines 1092-1095: '<product>_wcs.log' is removed
JobRemoveLog(j) ==
    /\ jb_pc[j] = "drizzle"
    /\ jb_log' = [jb_log EXCEPT ![j] = <<>>]
    /\ jb_pc' = [jb_pc EXCEPT ![j] = "align"]
    /\ UNCHANGED <<notJobs, jb_sdss, gaia_vot_gz, gaia_vot, jb_table, jb_ref>>

\* lines 1097-1101 with 557-584: the alignment to the reference list is
\* logged in '<product>_wcs.log'
JobAlign(j) ==
    /\ jb_pc[j] = "align"
    /\ jb_log' = [jb_log EXCEPT ![j] =
                     Append(@, [ref |-> jb_ref[j], table |-> jb_table[j]])]
    /\ jb_pc' = [jb_pc EXCEPT ![j] = "done"]
    /\ UNCHANGED <<notJobs, jb_sdss, gaia_vot_gz, gaia_vot, jb_table, jb_ref>>

NextJobs ==
    \E j \in Jobs :
        \/ JobQuery(j)
        \/ JobGaiaWrite(j)
        \/ JobGaiaRemove(j)
        \/ JobGunzip(j)
        \/ JobGaiaRead(j)
        \/ JobRemoveLog(j)
        \/ JobAlign(j)

SpecJobs == InitJobs /\ [][NextJobs]_vars

\* what job j leaves in its log when no other job runs
AloneLog(j) ==
    IF jb_sdss[j] THEN <<[ref |-> "SDSS", table |-> 0]>>
    ELSE <<[ref |-> "GAIA", table |-> j]>>

\* a job that finishes before the other one starts leaves AloneLog
AloneOutcome ==
    \A j \in Jobs :
        (jb_pc[j] = "done" /\ jb_pc[Other(j)] = "new") => jb_log[j] = AloneLog(j)

\* C21: whatever the interleaving of two jobs for two products in one
\* directory, each job ends as it does alone
JobsDoNotInterfere ==
    \A j \in Jobs : jb_pc[j] = "done" => jb_log[j] = AloneLog(j)

----------------------------------------------------------------------------
(* find_direct_grism_pairs.  An exposure is [visit, off]: the first six    *)
(* characters of its file name, and the place of its WCS along one axis,   *)
(* in hundredths of a pixel.  Files are named by their place in            *)
(* direct['files'] and grism['files'].                                     *)

MaxDirect == 2     \* most direct exposures
MaxGrism == 2      \* most grism exposures

Visits == {"ib6o23", "ib6o24"}

DirectOffs == {0, 5, 300}

GrismOffs == {0, 4}

FpToler == 10          \* toler=0.1

DeltaMin0 == 1000      \* delta_min = 10

Exposures(offs) == [visit : Visits, off : offs]

\* lines 1497-1499: where the grism WCS puts the sky position of the direct
\* exposure's check pixel, as a distance from the check pixel
Delta(g, d) == Abs(g.off - d.off)

\* line 1494
OtherVisit(g, d) == d.visit # g.visit /\ fp_same_visit

InitPairs ==
    /\ fp_pc = "start"
    /\ fp_direct \in UNION {[1..n -> Exposures(DirectOffs)] : n \in 1..MaxDirect}
    /\ fp_has_files \in BOOLEAN
    /\ fp_grism \in IF fp_has_files
                    THEN UNION {[1..n -> Exposures(GrismOffs)] : n \in 0..MaxGrism}
                    ELSE {<<>>}
    /\ fp_same_visit \in BOOLEAN
    /\ PairsLocals0
    /\ NotPairsIdle

\* lines 1476-1486
FpDirects ==
    /\ fp_pc = "start"
    /\ grism_matches' = [k \in 1..Len(fp_direct) |-> <<>>]
    /\ fp_pc' = IF fp_has_files THEN "grism" ELSE "done"
    /\ UNCHANGED <<notPairs, fp_direct, fp_grism, fp_has_files, fp_same_visit,
                   fp_g, fp_d, delta_min, delta_min_file>>

\* lines 1488-1493: the next grism file
FpGrism ==
    /\ fp_pc = "grism"
    /\ fp_g < Len(fp_grism)
    /\ fp_g' = fp_g + 1
    /\ delta_min' = DeltaMin0
    /\ fp_d' = 0
    /\ fp_pc' = "direct"
    /\ UNCHANGED <<notPairs, fp_direct, fp_grism, fp_has_files, fp_same_visit,
                   delta_min_file, grism_matches>>

\* lines 1494-1495
FpSkip ==
    /\ fp_pc = "direct"
    /\ fp_d < Len(fp_direct)
    /\ OtherVisit(fp_grism[fp_g], fp_direct[fp_d + 1])
    /\ fp_d' = fp_d + 1
    /\ UNCHANGED <<notPairs, fp_pc, fp_direct, fp_grism, fp_has_files,
                   fp_same_visit, fp_g, delta_min, delta_min_file,
                   grism_matches>>

\* lines 1497-1505: a smaller offset; the append is inside the loop
FpCloser ==
    /\ fp_pc = "direct"
    /\ fp_d < Len(fp_direct)
    /\ ~OtherVisit(fp_grism[fp_g], fp_direct[fp_d + 1])
    /\ LET delta == Delta(fp_grism[fp_g], fp_direct[fp_d + 1])
       IN  /\ delta < delta_min
           /\ delta_min' = delta
           /\ delta_min_file' = fp_d + 1
           /\ IF delta < FpToler
              THEN grism_matches' =
                     [grism_matches EXCEPT ![fp_d + 1] = Append(@, fp_g)]
              ELSE UNCHANGED grism_matches
    /\ fp_d' = fp_d + 1
    /\ UNCHANGED <<notPairs, fp_pc, fp_direct, fp_grism, fp_has_files,
                   fp_same_visit, fp_g>>

\* line 1502 false
FpFarther ==
    /\ fp_pc = "direct"
    /\ fp_d < Len(fp_direct)
    /\ ~OtherVisit(fp_grism[fp_g], fp_direct[fp_d + 1])
    /\ ~(Delta(fp_grism[fp_g], fp_direct[fp_d + 1]) < delta_min)
    /\ fp_d' = fp_d + 1
    /\ UNCHANGED <<notPairs, fp_pc, fp_direct, fp_grism, fp_has_files,
                   fp_same_visit, fp_g, delta_min, delta_min_file,
                   grism_matches>>

\* the inner loop is over
FpNextGrism ==
    /\ fp_pc = "direct"
    /\ fp_d = Len(fp_direct)
    /\ fp_pc' = "grism"
    /\ UNCHANGED <<notPairs, fp_direct, fp_grism, fp_has_files, fp_same_visit,
                   fp_g, fp_d, delta_min, delta_min_file, grism_matches>>

\* line 1507
FpReturn ==
    /\ fp_pc = "grism"
    /\ fp_g = Len(fp_grism)
    /\ fp_pc' = "done"
    /\ UNCHANGED <<notPairs, fp_direct, fp_grism, fp_has_files, fp_same_visit,
                   fp_g, fp_d, delta_min, delta_min_file, grism_matches>>

NextPairs ==
    \/ FpDirects
    \/ FpGrism
    \/ FpSkip
    \/ FpCloser
    \/ FpFarther
    \/ FpNextGrism
    \/ FpReturn

SpecPairs == InitPairs /\ [][NextPairs]_vars

\* the direct files whose match list holds the grism file g
MatchedTo(g) == {k \in 1..Len(grism_matches) : g \in Range(grism_matches[k])}

\* the direct files that grism file g is compared with
Compared(g) ==
    {k \in 1..Len(fp_direct) : ~OtherVisit(fp_grism[g], fp_direct[k])}

\* C24: a grism file is in the match list of at most one direct file, the
\* one with the smallest offset, and that offset is below toler; every
\* direct file has a match list
OneDirectPerGrism ==
    fp_pc = "done" =>
        /\ Len(grism_matches) = Len(fp_direct)
        /\ \A g \in 1..Len(fp_grism) :
             /\ Cardinality(MatchedTo(g)) <= 1
             /\ \A k \in MatchedTo(g) :
                  /\ k \in Compared(g)
                  /\ Delta(fp_grism[g], fp_direct[k]) < FpToler
                  /\ \A m \in Compared(g) :
                       Delta(fp_grism[g], fp_direct[k])
                           <= Delta(fp_grism[g], fp_direct[m])

\* every direct file has a match list
EveryDirectHasEntry ==
    fp_pc = "done" => Len(grism_matches) = Len(fp_direct)

----------------------------------------------------------------------------
(* fix_star_centers.  A DQ array is a function from the pixels <<x, y>> of *)
(* a small detector to integers; the catalog gives positions in the frame  *)
(* of the drizzled image, and the WCS of exposure i puts them at           *)
(* pos + fs_offs[i] in its own pixel frame.                                *)

MaxObjs == 2       \* most rows of the catalog
MaxExp == 2        \* most exposures (NDRIZIM)

StripW == 6        \* the detector is StripW x StripH pixels (1014 x 1014)
StripH == 2

Pixels == (0..(StripW - 1)) \X (0..(StripH - 1))

CRBit == 4096

\* (v & 4096) > 0
HasCR(v) == (v \div CRBit) % 2 = 1

DQFlagged == [p \in Pixels |-> 4096]

DQMixed == [p \in Pixels |-> IF (p[1] + p[2]) % 2 = 0 THEN 8192 + 4096 + 512
                             ELSE 512]

DQClean == [p \in Pixels |-> 16]

\* the exposures: the offset of the pixel frame and the DQ array in the file
FltFiles == {[off |-> <<0, 0>>, dq |-> DQFlagged],
             [off |-> <<1, 0>>, dq |-> DQMixed],
             [off |-> <<0, 0>>, dq |-> DQClean]}

ObjPos == {<<1, 0>>, <<3, 1>>, <<8, 0>>}

ObjMags == {20, 23}

MagLims == {22, 24}

InitStar ==
    /\ fs_pc = "start"
    /\ fs_mag_lim \in MagLims
    /\ fs_cat \in UNION {[1..n -> [pos : ObjPos, mag : ObjMags]] : n \in 0..MaxObjs}
    /\ \E n \in 1..MaxExp : \E flt \in [1..n -> FltFiles] :
         /\ fs_offs = [i \in 1..n |-> flt[i].off]
         /\ fs_disk = [i \in 1..n |-> flt[i].dq]
    /\ fs_dq0 = fs_disk
    /\ fs_dq = <<>>
    /\ fs_done = <<>>
    /\ NotStarIdle

\* lines 1958-1973: the FLT files are opened
FsOpen ==
    /\ fs_pc = "start"
    /\ fs_dq' = fs_disk
    /\ fs_pc' = "loop"
    /\ UNCHANGED <<notStar, fs_mag_lim, fs_cat, fs_offs, fs_disk, fs_dq0,
                   fs_done>>

\* line 1974: use
Use(k) == fs_cat[k].mag < fs_mag_lim

\* rows of cat[use] not yet taken
Pending == {k \in 1..Len(fs_cat) : Use(k)} \ Range(fs_done)

\* lines 1980-1981: r <= 3 at pixel p of exposure i for row k
Near(i, p, k) ==
    Dist2(p, <<fs_cat[k].pos[1] + fs_offs[i][1],
               fs_cat[k].pos[2] + fs_offs[i][2]>>) <= 3 * 3

\* line 1982 without the test of the bit
UnsetNear(i, p, k) == Near(i, p, k)

\* line 1982: unset
Unset(i, p, k) == Near(i, p, k) /\ HasCR(fs_dq[i][p])

\* lines 1976-1985: the next row in order of magnitude, rows of equal
\* magnitude in either order
FsObject ==
    /\ fs_pc = "loop"
    /\ \E k \in Pending :
         /\ \A m \in Pending : fs_cat[k].mag <= fs_cat[m].mag
         /\ fs_dq' = [i \in 1..Len(fs_dq) |->
                        [p \in Pixels |->
                           IF Unset(i, p, k) THEN fs_dq[i][p] - CRBit
                           ELSE fs_dq[i][p]]]
         /\ fs_done' = Append(fs_done, k)
    /\ UNCHANGED <<notStar, fs_pc, fs_mag_lim, fs_cat, fs_offs, fs_disk,
                   fs_dq0>>

\* lines 1990-1992
FsFlush ==
    /\ fs_pc = "loop"
    /\ Pending = {}
    /\ fs_disk' = fs_dq
    /\ fs_pc' = "done"
    /\ UNCHANGED <<notStar, fs_mag_lim, fs_cat, fs_offs, fs_dq, fs_dq0,
                   fs_done>>

NextStar == FsOpen \/ FsObject \/ FsFlush

SpecStar == InitStar /\ [][NextStar]_vars

\* value v of pixel p of exposure i differs from the original v0 in bit
\* 4096 at most, and only by a row taken by the loop within 3 pixels
OnlyCRCleared(i, p, v, v0) ==
    /\ v >= 0
    /\ v % CRBit = v0 % CRBit
    /\ v \div (2 * CRBit) = v0 \div (2 * CRBit)
    /\ v # v0 =>
         /\ HasCR(v0) /\ ~HasCR(v)
         /\ \E k \in Range(fs_done) : Use(k) /\ Near(i, p, k)

\* C25: after any number of catalog rows, in memory and in the files, every
\* DQ value keeps all its bits but 4096, is not negative, and has lost bit
\* 4096 only where it was set and a selected object is within 3 pixels
OnlyBit4096Changes ==
    /\ \A i \in 1..Len(fs_dq) : \A p \in Pixels :
         OnlyCRCleared(i, p, fs_dq[i][p], fs_dq0[i][p])
    /\ \A i \in 1..Len(fs_disk) : \A p \in Pixels :
         OnlyCRCleared(i, p, fs_disk[i][p], fs_dq0[i][p])

\* two objects whose discs overlap were taken, and a pixel under both lost
\* bit 4096 once and kept bits 8192 and 512
OverlapWitness ==
    /\ fs_pc = "done"
    /\ Len(fs_done) = 2
    /\ \E i \in 1..Len(fs_disk) : \E p \in Pixels :
         /\ Near(i, p, fs_done[1]) /\ Near(i, p, fs_done[2])
         /\ fs_dq0[i][p] = 8192 + 4096 + 512
         /\ fs_disk[i][p] = 8192 + 512

----------------------------------------------------------------------------
(* log_wcs called again and again for one root.  A data line of the log is *)
(* [ext, wcs]; an HDU of '<root>_wcs.fits' is the WCS it holds.  The files *)
(* may be there before the first call, left by an earlier run.             *)

MaxCalls == 4      \* most calls of log_wcs

WcsIds == {1, 2}       \* the drz_wcs arguments

OldWcs == 9            \* the WCS of an earlier run

File(content) == [exists |-> TRUE, content |-> content]

InitLog ==
    /\ lw_log \in {NoFile, File(<<[ext |-> 7, wcs |-> OldWcs]>>)}
    /\ lw_fits \in {NoFile, File(<<OldWcs, OldWcs>>)}
    /\ lw_calls = 0
    /\ lw_synced = FALSE
    /\ lw_err = ""
    /\ NotLogIdle

\* lines 591-596 and 602-609 with the HDUs of an existing file kept
LwInitializeKeepHDUs ==
    /\ lw_err = "" /\ lw_calls < MaxCalls
    /\ \E initialize \in BOOLEAN, w \in WcsIds :
         /\ ~lw_log.exists \/ initialize
         /\ lw_log' = File(<<[ext |-> 0, wcs |-> w]>>)
         /\ lw_fits' = File(Append(lw_fits.content, w))
    /\ lw_calls' = lw_calls + 1
    /\ lw_synced' = TRUE
    /\ UNCHANGED <<notLog, lw_err>>

\* lines 591-596 and 602-609: a new log and a new HDU list
LwInitialize ==
    /\ lw_err = "" /\ lw_calls < MaxCalls
    /\ \E initialize \in BOOLEAN, w \in WcsIds :
         /\ ~lw_log.exists \/ initialize
         /\ lw_log' = File(<<[ext |-> 0, wcs |-> w]>>)
         /\ lw_fits' = File(<<w>>)
    /\ lw_calls' = lw_calls + 1
    /\ lw_synced' = TRUE
    /\ UNCHANGED <<notLog, lw_err>>

\* lines 597-609: count = len(orig_hdul)
LwAppend ==
    /\ lw_err = "" /\ lw_calls < MaxCalls
    /\ lw_log.exists /\ lw_fits.exists
    /\ \E w \in WcsIds :
         /\ lw_fits' = File(Append(lw_fits.content, w))
         /\ lw_log' = File(Append(lw_log.content,
                                  [ext |-> Len(lw_fits.content), wcs |-> w]))
    /\ lw_calls' = lw_calls + 1
    /\ UNCHANGED <<notLog, lw_synced, lw_err>>

\* line 599 without '<root>_wcs.fits': pyfits.open raises
LwNoFits ==
    /\ lw_err = "" /\ lw_calls < MaxCalls
    /\ lw_log.exists /\ ~lw_fits.exists
    /\ lw_err' = "IOError"
    /\ lw_calls' = lw_calls + 1
    /\ UNCHANGED <<notLog, lw_log, lw_fits, lw_synced>>

\* lines 1092-1095: the caller removes the log between two runs
LwRemoveLog ==
    /\ lw_err = ""
    /\ lw_log.exists
    /\ lw_log' = NoFile
    /\ lw_synced' = FALSE
    /\ UNCHANGED <<notLog, lw_fits, lw_calls, lw_err>>

NextLog == LwInitialize \/ LwAppend \/ LwNoFits \/ LwRemoveLog

SpecLog == InitLog /\ [][NextLog]_vars

\* every line's ext is its row, and the HDU at that index holds its WCS
ExtIndexesRowAndHDU ==
    /\ lw_log.exists /\ lw_fits.exists
    /\ Len(lw_fits.content) = Len(lw_log.content)
    /\ \A k \in 1..Len(lw_log.content) :
         /\ lw_log.content[k].ext = k - 1
         /\ lw_fits.content[lw_log.content[k].ext + 1] = lw_log.content[k].wcs

\* a call made when there is no log leaves what initialize=True leaves
CallWithoutLog ==
    (~lw_log.exists /\ lw_calls' = lw_calls + 1) =>
        /\ lw_err' = ""
        /\ \E w \in WcsIds :
             /\ lw_log' = File(<<[ext |-> 0, wcs |-> w]>>)
             /\ lw_fits' = File(<<w>>)

\* C28: after an initializing call and any number of calls after it, line
\* k of the log has ext = k and the WCS file has one HDU per line, the HDU
\* of the line at index ext; a call without a log file initializes
LogIndexesWcsFile ==
    /\ [](lw_synced => ExtIndexesRowAndHDU)
    /\ [][CallWithoutLog]_vars

\* an initializing call over the files of an earlier run, then two calls
\* with initialize=False
ThreeLinesWitness ==
    /\ lw_synced
    /\ lw_calls = 3
    /\ Len(lw_log.content) = 3
    /\ lw_log.content[3].ext = 2
    /\ lw_fits.content = <<1, 2, 1>>

====
